---- MODULE Spec2Model ----
(***************************************************************************)
(* A model of the ouroboros ledger node (crate ouro_dag): transaction      *)
(* admission (P2P inbound handler, file drop, POST /tx/submit and the      *)
(* batch writer), the mempool kept in the embedded KV store, the consensus *)
(* checkpoint of the main loop that commits blocks to the relational store,*)
(* and the BFT signature bookkeeping.                                      *)
(*                                                                         *)
(* Stores: the embedded KV store (sled) is modelled per key prefix, the    *)
(* relational store (Postgres) per table.  Uuid::new_v4() is a counter.    *)
(* A statement sent to either store may fail; an action that runs such a   *)
(* statement takes the step at which the failure happens as an input.      *)
(***************************************************************************)
EXTENDS Integers, Sequences, FiniteSets, TLC

(***************************************************************************)
(* Bounds of the model.                                                    *)
(***************************************************************************)
MaxUuid == 2        \* transaction ids handed out by Uuid::new_v4()
MaxBlocks == 2      \* block ids handed out by Uuid::new_v4()
MaxSubmits == 3     \* submissions POST /tx/submit accepts
MaxChan == 2        \* capacity of the batch writer's channel in the model (10000 in batch_writer.rs)
BATCH_SIZE == 2     \* transactions that fill a batch in the model (500 in batch_writer.rs)
MaxEvidence == 2    \* evidence rows written in the model
MaxView == 2        \* views (rounds) votes are cast in
MaxNow == 36        \* the clock stops here (hours)
TickStep == 12      \* hours that pass in one clock step
MaxPool == 3        \* entries of a mempool given to pop_for_block
MaxFee == 1         \* largest fee of such an entry
MaxTxs == 2         \* transactions of a list given to vm::execute_contracts
MaxInstant == 600   \* last second of the network clock
NetStep == 150      \* seconds that pass in one step of the network clock
MaxLog == 3         \* envelopes delivered, and envelopes forwarded, that are recorded
MaxConns == 10      \* open connections in a snapshot of the broadcaster
MaxPeers == 2       \* peer addresses
MAX_PEERS == 2      \* entries prune_peer_list keeps in the model (2000 in network.rs)
MAX_PER_WINDOW == 4 \* envelopes per peer and rate window in the model (600 in network.rs)
MaxQueue == 2       \* capacity of a connection's outgoing channel in the model (128 in network.rs)
RateStep == 30      \* seconds that pass in one step of the clock of the rate limiter
MaxUnix == 90       \* last second of that clock
MaxHeight == 2      \* block heights handed to save_block
MaxBlockId == 2     \* block ids handed to save_block
MaxRequests == 2    \* RATE_LIMIT_MAX_REQUESTS the router is started with
MaxCalls == 5       \* requests that reach the rate limit middleware
MaxLines == 4       \* lines a connector sends on one accepted connection
MaxLeaves == 4      \* tx hashes of a block handed to MerkleTree::from_hashes
MaxHash == 2        \* distinct tx hashes
MaxPings == 2       \* pings and pongs a peer sends on one connection
MaxTasks == 2       \* outbound connection tasks the connection manager spawns
UnixAtStart == 604800 \* what current_unix() returns when start_network runs
WordBits == 4       \* width of u64 and i64 in the model (64 in the code)
MaxFinalize == 2    \* calls of finalize_block on one block

(***************************************************************************)
(* Program constants.                                                      *)
(***************************************************************************)
TTL_HOURS == 24         \* mempool.rs: chrono::Duration::hours(24)
POP_LIMIT == 100        \* lib.rs: pop_for_block(100)
PK_LEN == 32            \* crypto.rs: [u8; 32]
SIG_LEN == 64           \* crypto.rs: [u8; 64]
DEDUPE_SECS == 300  \* network.rs: Duration::from_secs(300)
PEER_TTL_SECS == 604800 \* network.rs: const TTL_SECS: u64 = 60 * 60 * 24 * 7
PRUNE_FAILURES == 8  \* network.rs: e.failures < 8
RATE_LIMIT_WINDOW_SECS == 60 \* api.rs: RATE_LIMIT_WINDOW_SECS .unwrap_or(60)
WINDOW_SECS == 60    \* network.rs: const WINDOW_SECS: u64 = 60
MAX_FANOUT == 8     \* network.rs: const MAX_FANOUT: usize = 8
U8_MAX == 255       \* network.rs: msgid.as_bytes()[0], a u8
N_VALIDATORS == 3       \* lib.rs: NodeA, NodeB, NodeC

NULL == "NULL"
Accounts == {"alice", "bob"}
Keys == {"kA", "kB"}
CHAIN_ID == "ouroboros-mainnet-1"

(***************************************************************************)
(* Hex strings that carry keys and signatures.  A public key string is     *)
(* described by whether it decodes as hex, the number of bytes it decodes  *)
(* to, and the key pair it belongs to; a signature string by the same two  *)
(* facts, the key that made it and the message it was made over.           *)
(***************************************************************************)
PubKey(k) == [hex |-> TRUE, len |-> PK_LEN, key |-> k]
EmptyString == [hex |-> TRUE, len |-> 0, key |-> "none"]
SigBy(k, m) == [hex |-> TRUE, len |-> SIG_LEN, by |-> k, over |-> m]
ShortSig(k, m) == [hex |-> TRUE, len |-> SIG_LEN - 1, by |-> k, over |-> m]
NotHexSig == [hex |-> FALSE, len |-> 0, by |-> "none", over |-> <<>>]
\* 64 well-formed bytes that no key produced
GarbageSig == [hex |-> TRUE, len |-> SIG_LEN, by |-> "none", over |-> <<>>]
EmptySig == [hex |-> TRUE, len |-> 0, by |-> "none", over |-> <<>>]
\* a JSON field or an Option that holds no string
NoString == [absent |-> TRUE]

\* crypto.rs verify_ed25519_hex, broken: accepts on the shape of the strings
verify_ed25519_hex_LengthOnly(pubkey_hex, sig_hex, message) ==
    /\ pubkey_hex.hex
    /\ sig_hex.hex
    /\ pubkey_hex.len = PK_LEN
    /\ sig_hex.len = SIG_LEN

\* crypto.rs verify_ed25519_hex
verify_ed25519_hex(pubkey_hex, sig_hex, message) ==
    /\ pubkey_hex.hex                     \* hex::decode(pubkey_hex)
    /\ sig_hex.hex                        \* hex::decode(sig_hex)
    /\ pubkey_hex.len = PK_LEN            \* try_into [u8; 32]
    /\ pubkey_hex.key \in Keys            \* PublicKey::from_bytes
    /\ sig_hex.len = SIG_LEN              \* try_into [u8; 64]
    /\ sig_hex.by = pubkey_hex.key        \* pubkey.verify(message, &signature)
    /\ sig_hex.over = message

\* lib.rs verify_signature_stub: length checks only, the message is ignored
verify_signature_stub(pubkey_hex, sig_hex, message) ==
    /\ pubkey_hex.hex
    /\ sig_hex.hex
    /\ pubkey_hex.len = PK_LEN
    /\ sig_hex.len = SIG_LEN

\* lib.rs: format!("{}:{}:{}", sender, recipient, amount)
TransferMessage(sender, recipient, amount) == <<sender, recipient, amount>>

(***************************************************************************)
(* dag::transaction::Transaction as the node uses it.                      *)
(***************************************************************************)
Transaction(id, sender, recipient, amount, fee, timestamp, parents, signature, public_key, payload) ==
    [id |-> id, sender |-> sender, recipient |-> recipient, amount |-> amount,
     fee |-> fee, timestamp |-> timestamp, parents |-> parents,
     signature |-> signature, public_key |-> public_key, payload |-> payload,
     chain_id |-> CHAIN_ID, nonce |-> 0]

VARIABLES
    now,            \* wall clock (hours)
    next_uuid,      \* transaction ids handed out so far
    next_block,     \* block ids handed out so far
    mempool,        \* KV prefix mempool: , id -> Transaction
    dag,            \* KV prefix txn: and DAG.transactions, id -> Transaction
    receipts,       \* KV prefix receipt: , id -> status
    kv_blocks,      \* KV prefix block: , set of block ids
    kv_tx_index,    \* KV prefix tx_index: , tx id -> block id
    sled_blocks,    \* the block store blocks.db, block id -> tx ids
    blocks,         \* table blocks, set of Block
    tx_index,       \* table tx_index, set of rows
    balances,       \* table balances, account -> balance
    transactions,   \* table transactions, set of rows
    chan,           \* the batch writer's channel
    batch,          \* the batch worker's vector
    seen_signatures,\* BFTState.seen_signatures
    evidence,       \* table evidence, sequence of rows
    arrival,        \* history: the hour each mempool entry was first put, id -> clock
    instant,        \* monotonic clock of the network tasks (seconds)
    dedupe,         \* network.rs dedupe cache: message id -> expiry
    inbound_rx,     \* the transactions delivered to the inbound channel
    forwarded,      \* the envelopes the broadcaster fanned out to peers
    peer_store,     \* network.rs PeerStore: addr -> PeerEntry
    connections,    \* network.rs connections map: addr -> the task that owns the entry
    tasks,          \* the tasks start_network spawned: task -> its state
    manager,        \* the connection manager's position in its loop
    hist,           \* history: what was addressed to, and sent to, each peer
    buckets,        \* RateLimiter.buckets, ip -> (count, window_start)
    storage,        \* the Storage backends, what save_block has stored in each
    locks,          \* the network's tokio mutexes, mutex -> the task holding it
    last            \* the operation that ran last, what it was given and what it answered

clockVars == <<now, next_uuid, next_block>>
kvVars == <<mempool, dag, receipts, kv_blocks, kv_tx_index, sled_blocks>>
sqlVars == <<blocks, tx_index, balances, transactions>>
writerVars == <<chan, batch>>
bftVars == <<seen_signatures, evidence>>
extVars == <<buckets, storage, locks>>
peerVars == <<peer_store, connections, tasks, manager, hist>>
netVars == <<instant, dedupe, inbound_rx, forwarded, peerVars>>
vars == <<clockVars, kvVars, sqlVars, writerVars, bftVars, extVars, netVars, arrival, last>>

Empty == [x \in {} |-> NULL]
\* sled insert: the value under the key is replaced
Put(store, key, val) == [k \in DOMAIN store \cup {key} |-> IF k = key THEN val ELSE store[k]]
\* the arrival hours once the mempool holds `pool`: an entry put for the first
\* time arrives at `clock`
Arrive(arr, pool, clock) ==
    [k \in DOMAIN pool |-> IF k \in DOMAIN arr THEN arr[k] ELSE clock]

\* the RocksDB key state:latest_height is absent
NoHeight == -1
\* a RocksDB directory and a blocks table with nothing in them
EmptyStorage ==
    [rocks |-> [by_height |-> Empty, by_id |-> Empty, latest_height |-> NoHeight],
     pg |-> Empty]

\* RateLimiter::new, empty Storage backends, no mutex held
InitExt ==
    /\ buckets = Empty
    /\ storage = EmptyStorage
    /\ locks = Empty

\* start_network: an empty dedupe cache, nothing delivered or forwarded yet
InitNet ==
    /\ instant = 0
    /\ dedupe = Empty
    /\ inbound_rx = <<>>
    /\ forwarded = <<>>
    /\ peer_store = Empty
    /\ connections = Empty
    /\ tasks = Empty
    /\ manager = [pc |-> "idle"]
    /\ hist = Empty

(***************************************************************************)
(* Inputs: what a peer, the file drop or the clock can hand to the node.   *)
(***************************************************************************)
OtherKey(k) == IF k = "kA" THEN "kB" ELSE "kA"
KeyOf(account) == IF account = "alice" THEN "kA" ELSE "kB"
\* signature strings that may come with message m from the holder of key k:
\* the right one, one made with another key, one made over another message,
\* 64 bytes no key made, a string one byte short, a string that is not hex
SignatureInputs(k, m) ==
    {SigBy(k, m), SigBy(OtherKey(k), m), SigBy(k, <<"other message">>),
     GarbageSig, ShortSig(k, m), NotHexSig}
MissingParent == 0
\* the bodies a peer may gossip: sender, recipient, amount, fee, parents, payload
PeerShapes ==
    << <<"alice", "bob", 2, 1, {}, "none">>,
       <<"bob", "alice", 1, 0, {}, "unknown_contract">>,
       <<"bob", "alice", 1, 2, {MissingParent}, "none">>,
       <<"alice", "bob", 1, 0, {}, "plain_json">> >>
\* the body gossiped under an id
ShapeOf(id) == PeerShapes[((id - 1) % Len(PeerShapes)) + 1]
PeerTxn(id, ts, sg) ==
    LET sh == ShapeOf(id)
    IN  Transaction(id, sh[1], sh[2], sh[3], sh[4], ts, sh[5], sg, PubKey(KeyOf(sh[1])), sh[6])
\* the transaction of an id with each signature input
PeerTxns(id, ts) ==
    LET sh == ShapeOf(id)
    IN  { PeerTxn(id, ts, sg) :
            sg \in SignatureInputs(KeyOf(sh[1]), TransferMessage(sh[1], sh[2], sh[3])) }
\* the contents dag_txn.json may have (IncomingFileTxn)
FileTxns ==
    { [sender |-> "alice", recipient |-> "bob", amount |-> 1,
       public_key |-> PubKey("kA"), signature |-> sg] :
        sg \in SignatureInputs("kA", TransferMessage("alice", "bob", 1)) }

(***************************************************************************)
(* mempool.rs                                                              *)
(***************************************************************************)
\* Mempool::add_tx: put under mempool:<id>
add_tx(pool, txn) == Put(pool, txn.id, txn)

\* the order of sort_by, broken: the lowest fee first
Before_FeeAscending(a, b) ==
    \/ a.fee < b.fee
    \/ a.fee = b.fee /\ a.timestamp < b.timestamp
    \/ a.fee = b.fee /\ a.timestamp = b.timestamp /\ a.id < b.id

\* the order of sort_by in pop_for_block; the sort is stable and iter_prefix
\* yields the entries in key order, so equal entries stay in id order
Before(a, b) ==
    \/ a.fee > b.fee
    \/ a.fee = b.fee /\ a.timestamp < b.timestamp
    \/ a.fee = b.fee /\ a.timestamp = b.timestamp /\ a.id < b.id

RECURSIVE SortTxs(_)
SortTxs(S) ==
    IF S = {} THEN <<>>
    ELSE LET first == CHOOSE a \in S : \A b \in S \ {a} : Before(a, b)
         IN  <<first>> \o SortTxs(S \ {first})

Take(s, n) == SubSeq(s, 1, IF Len(s) < n THEN Len(s) ELSE n)

\* Mempool::pop_for_block: entries younger than the TTL, by fee descending then
\* timestamp ascending, the first `limit` of them; nothing is deleted
pop_for_block(pool, clock, limit) ==
    LET live == { pool[id] : id \in { i \in DOMAIN pool : clock - pool[i].timestamp < TTL_HOURS } }
    IN  Take(SortTxs(live), limit)

(***************************************************************************)
(* Admission from peers and from the file drop (lib.rs)                    *)
(***************************************************************************)

\* lib.rs run, inbound p2p handler: one transaction received on inbound_rx;
\* its timestamp is the one the peer wrote, drawn from `timestamps`
Inbound(timestamps) ==
    \E id \in 1..MaxUuid, put_ok \in BOOLEAN, ts \in timestamps :
      \E txn \in PeerTxns(id, ts) :
        /\ id <= next_uuid + 1
        /\ LET message == TransferMessage(txn.sender, txn.recipient, txn.amount)
               verified == verify_ed25519_hex(txn.public_key, txn.signature, message)
               added == verified /\ put_ok
           IN  /\ next_uuid' = IF added /\ id > next_uuid THEN id ELSE next_uuid
               /\ mempool' = IF added THEN add_tx(mempool, txn) ELSE mempool
               /\ last' = IF added THEN [op |-> "inbound", added |-> TRUE, txn |-> txn]
                          ELSE [op |-> "inbound", added |-> FALSE]
               /\ arrival' = Arrive(arrival, mempool', now)
               /\ UNCHANGED netVars
        /\ UNCHANGED <<now, next_block, dag, receipts, kv_blocks, kv_tx_index, sled_blocks>>
        /\ UNCHANGED <<sqlVars, writerVars, bftVars, extVars>>

\* a peer whose clock agrees with the node's
InboundP2P == Inbound({now})

\* lib.rs handle_incoming_file: dag_txn.json exists and parses
HandleIncomingFile ==
    \E parsed \in FileTxns, put_ok \in BOOLEAN :
        /\ next_uuid < MaxUuid
        /\ LET message == TransferMessage(parsed.sender, parsed.recipient, parsed.amount)
               verified == verify_ed25519_hex(parsed.public_key, parsed.signature, message)
               txn == Transaction(next_uuid + 1, parsed.sender, parsed.recipient, parsed.amount,
                                  0, now, {}, parsed.signature, parsed.public_key, "none")
               added == verified /\ put_ok
           IN  /\ next_uuid' = IF added THEN next_uuid + 1 ELSE next_uuid
               /\ mempool' = IF added THEN add_tx(mempool, txn) ELSE mempool
               /\ last' = IF added THEN [op |-> "file", added |-> TRUE, txn |-> txn]
                          ELSE [op |-> "file", added |-> FALSE]
               /\ arrival' = Arrive(arrival, mempool', now)
               /\ UNCHANGED netVars
        /\ UNCHANGED <<now, next_block, dag, receipts, kv_blocks, kv_tx_index, sled_blocks>>
        /\ UNCHANGED <<sqlVars, writerVars, bftVars, extVars>>

(***************************************************************************)
(* vm.rs                                                                   *)
(***************************************************************************)
\* the status execute_contracts gives a transaction, by its payload: no payload
\* or JSON that names no contract is a plain transfer; JSON that does not parse
\* or names a contract other than sbt fails
ExecStatus(tx) ==
    IF tx.payload \in {"none", "plain_json"} THEN "ok" ELSE "failed"

\* execute_contracts writes receipt:<id> itself on the paths that end "ok"
WritesReceipt(tx) == ExecStatus(tx) = "ok"

\* vm.rs execute_contracts: one result per transaction, in order; the put of a
\* receipt may fail (fail_at = its position, 0 = none), which ends the run
\* with Err and keeps the receipts written before it
RECURSIVE execute_contracts(_, _, _, _)
execute_contracts(rcpts, txs, fail_at, pos) ==
    IF pos > Len(txs) THEN [ok |-> TRUE, receipts |-> rcpts, results |-> <<>>]
    ELSE LET tx == txs[pos]
         IN  IF WritesReceipt(tx) /\ fail_at = pos
             THEN [ok |-> FALSE, receipts |-> rcpts, results |-> <<>>]
             ELSE LET rest == execute_contracts(
                                  IF WritesReceipt(tx) THEN Put(rcpts, tx.id, "ok") ELSE rcpts,
                                  txs, fail_at, pos + 1)
                  IN  [ok |-> rest.ok, receipts |-> rest.receipts,
                       results |-> <<[tx_id |-> tx.id, status |-> ExecStatus(tx)]>> \o rest.results]

(***************************************************************************)
(* dag/dag.rs, dag/validation.rs                                           *)
(***************************************************************************)
\* validate_transaction: every parent is a known transaction
validate_transaction(txn, existing_ids) == txn.parents \subseteq existing_ids

\* DAG::add_transaction for each popped transaction in turn (lib.rs run):
\* the accepted ones are stored under txn:<id> and make up the block
RECURSIVE AddToDag(_, _, _)
AddToDag(d, txs, accepted) ==
    IF txs = <<>> THEN [dag |-> d, accepted |-> accepted]
    ELSE IF validate_transaction(Head(txs), DOMAIN d)
         THEN AddToDag(Put(d, Head(txs).id, Head(txs)), Tail(txs), Append(accepted, Head(txs)))
         ELSE AddToDag(d, Tail(txs), accepted)

\* get_txids_for_block: the block's tx ids, empty when the block is not stored
get_txids_for_block(store, block_id) ==
    IF block_id \in DOMAIN store THEN store[block_id] ELSE <<>>

(***************************************************************************)
(* reconciliation.rs                                                       *)
(***************************************************************************)
\* the two upserts finalize_block sends for one transaction; `lost` holds the
\* statements the store refused, whose errors finalize_block drops
\* the values of u64 are 0 .. Modulus - 1, those of i64 -Modulus/2 .. Modulus/2 - 1
Modulus == 2 ^ WordBits
\* u64 + u64 in a build without overflow checks
wrapping_add(a, b) == (a + b) % Modulus
\* `as i64` of a u64: the same bits read as two's complement
as_i64(x) == IF x >= Modulus \div 2 THEN x - Modulus ELSE x
\* .bind((tx.amount + tx.fee) as i64) and .bind(tx.amount as i64)
DebitParam(tx) == as_i64(wrapping_add(tx.amount, tx.fee))
CreditParam(tx) == as_i64(tx.amount)

ApplyTransfer(bal, tx, pos, lost) ==
    LET debited == IF <<pos, "debit">> \in lost THEN bal
                   ELSE [bal EXCEPT ![tx.sender] = @ - DebitParam(tx)]
    IN  IF <<pos, "credit">> \in lost THEN debited
        ELSE [debited EXCEPT ![tx.recipient] = @ + CreditParam(tx)]

RECURSIVE UpdateBalances(_, _, _, _, _)
UpdateBalances(bal, txs, results, lost, pos) ==
    IF pos > Len(results) THEN bal
    ELSE UpdateBalances(
             IF results[pos].status = "ok" /\ pos <= Len(txs)
             THEN ApplyTransfer(bal, txs[pos], pos, lost) ELSE bal,
             txs, results, lost, pos + 1)

RECURSIVE PersistReceipts(_, _)
PersistReceipts(rcpts, results) ==
    IF results = <<>> THEN rcpts
    ELSE PersistReceipts(Put(rcpts, Head(results).tx_id, Head(results).status), Tail(results))

\* finalize_block(block_id).  store: the block store of get_txids_for_block;
\* txs: what get_transaction loads for the block's ids, in order (ids it cannot
\* load are skipped); fail: "open" when the block store cannot be read, "vm"
\* when execute_contracts returns Err at receipt fail_at, "pool" when no
\* relational connection is made; lost: balance statements that fail
finalize_block(store, block_id, txs, rcpts, bal, fail, fail_at, lost) ==
    LET tx_ids == get_txids_for_block(store, block_id)
        run == execute_contracts(rcpts, txs, IF fail = "vm" THEN fail_at ELSE 0, 1)
    IN  IF fail = "open" THEN [ok |-> FALSE, receipts |-> rcpts, balances |-> bal]
        ELSE IF tx_ids = <<>> \/ txs = <<>> THEN [ok |-> TRUE, receipts |-> rcpts, balances |-> bal]
        ELSE IF ~run.ok THEN [ok |-> FALSE, receipts |-> run.receipts, balances |-> bal]
        ELSE [ok |-> TRUE,
              receipts |-> PersistReceipts(run.receipts, run.results),
              balances |-> IF fail = "pool" THEN bal
                           ELSE UpdateBalances(bal, txs, run.results, lost, 1)]

(***************************************************************************)
(* The checkpoint of the main loop (lib.rs run)                            *)
(***************************************************************************)
\* bft::consensus::Block as run builds it: no signature is ever put in
Block(id, timestamp, tx_ids) ==
    [id |-> id, timestamp |-> timestamp, tx_ids |-> tx_ids, validator_signatures |-> <<>>]

TxIds(txs) == [i \in 1..Len(txs) |-> txs[i].id]
SeqToSet(s) == { s[i] : i \in 1..Len(s) }

\* INSERT INTO tx_index (tx_id, block_id) ... ON CONFLICT (tx_id) DO NOTHING,
\* once per tx id of the block; no tx_hash is given
InsertTxIndex(idx, block) ==
    idx \cup { [tx_hash |-> NULL, tx_id |-> t, block_id |-> block.id] :
                 t \in { u \in SeqToSet(block.tx_ids) : \A r \in idx : r.tx_id # u } }

\* PersistBlock, broken: the statements run outside the relational transaction,
\* so what was inserted before the failing step stays
PersistBlock_NoRollback(blks, idx, block, fail) ==
    IF fail = "begin" \/ fail = "insert_block" THEN [blocks |-> blks, tx_index |-> idx]
    ELSE IF fail = "tx_index" THEN [blocks |-> blks \cup {block}, tx_index |-> idx]
    ELSE [blocks |-> blks \cup {block}, tx_index |-> InsertTxIndex(idx, block)]

\* run: begin, INSERT INTO blocks, the tx_index inserts, commit.  A failure of
\* begin, of an insert (followed by rollback) or of commit leaves both tables
\* as they were
PersistBlock(blks, idx, block, fail) ==
    IF fail \in {"begin", "insert_block", "tx_index", "commit"}
    THEN [blocks |-> blks, tx_index |-> idx]
    ELSE [blocks |-> blks \cup {block}, tx_index |-> InsertTxIndex(idx, block)]

\* the re-add loop of the failure paths: mempool.add_tx for each transaction
ReAdd(pool, txs) ==
    [k \in DOMAIN pool \cup SeqToSet(TxIds(txs)) |->
        IF \E i \in 1..Len(txs) : txs[i].id = k
        THEN txs[CHOOSE i \in 1..Len(txs) : txs[i].id = k]
        ELSE pool[k]]

\* batch_put of the tx_index cache entries
PutIndexEntries(cache, block) ==
    [k \in DOMAIN cache \cup SeqToSet(block.tx_ids) |->
        IF k \in SeqToSet(block.tx_ids) THEN block.id ELSE cache[k]]

CommitSteps == {"none", "finalize", "vm", "begin", "insert_block", "tx_index", "commit"}
KvCacheFailures == {"none", "block", "index"}

\* one pass of `if last_checkpoint.elapsed() >= checkpoint_interval` with a
\* non-empty block.  hotstuff.start_view() runs first; its error is printed and
\* nothing of its outcome is read by the rest of the pass.  fail: the step that fails; fail_at: the receipt whose put
\* fails when fail = "vm"; kv_fail: the cache write that fails after the commit
Checkpoint ==
    \E fail \in CommitSteps, fail_at \in 1..MaxUuid, kv_fail \in KvCacheFailures :
        LET block_txns == pop_for_block(mempool, now, POP_LIMIT)
            added == AddToDag(dag, block_txns, <<>>)
            block_txns_ref == added.accepted
            block_id == next_block + 1
            block == Block(block_id, now, TxIds(block_txns_ref))
            fin == finalize_block(sled_blocks, block_id, <<>>, receipts, balances,
                                  IF fail = "finalize" THEN "open" ELSE "none", 0, {})
            exec == execute_contracts(fin.receipts, block_txns_ref,
                                      IF fail = "vm" THEN fail_at ELSE 0, 1)
            sql == PersistBlock(blocks, tx_index, block, fail)
            stored == fin.ok /\ exec.ok /\ fail = "none"
        IN  /\ next_block < MaxBlocks
            /\ block_txns_ref # <<>>
            /\ fail = "vm" => (fail_at <= Len(block_txns_ref) /\ WritesReceipt(block_txns_ref[fail_at]))
            /\ fail # "vm" => fail_at = 1
            /\ fail # "none" => kv_fail = "none"
            /\ next_block' = block_id
            /\ dag' = added.dag
            /\ receipts' = IF fin.ok THEN exec.receipts ELSE fin.receipts
            /\ balances' = fin.balances
            /\ mempool' = IF stored THEN mempool ELSE ReAdd(mempool, block_txns_ref)
            /\ arrival' = Arrive(arrival, mempool', now)
            /\ UNCHANGED netVars
            /\ blocks' = IF fin.ok /\ exec.ok THEN sql.blocks ELSE blocks
            /\ tx_index' = IF fin.ok /\ exec.ok THEN sql.tx_index ELSE tx_index
            /\ kv_blocks' = IF stored /\ kv_fail # "block" THEN kv_blocks \cup {block_id} ELSE kv_blocks
            /\ kv_tx_index' = IF stored /\ kv_fail # "index"
                              THEN PutIndexEntries(kv_tx_index, block) ELSE kv_tx_index
            /\ last' = [op |-> "checkpoint", failed |-> fail, block_id |-> block_id,
                        txs |-> block_txns_ref,
                        results |-> IF fin.ok /\ exec.ok THEN exec.results ELSE <<>>]
            /\ UNCHANGED <<now, next_uuid, sled_blocks, transactions>>
            /\ UNCHANGED <<writerVars, bftVars, extVars>>

(***************************************************************************)
(* Initial state and specifications                                        *)
(***************************************************************************)

Init ==
    /\ now = 0
    /\ next_uuid = 0
    /\ next_block = 0
    /\ mempool = Empty
    /\ dag = Empty
    /\ receipts = Empty
    /\ kv_blocks = {}
    /\ kv_tx_index = Empty
    /\ sled_blocks = Empty
    /\ blocks = {}
    /\ tx_index = {}
    /\ balances = [a \in Accounts |-> 0]
    /\ transactions = {}
    /\ chan = <<>>
    /\ batch = <<>>
    /\ seen_signatures = Empty
    /\ InitExt
    /\ evidence = <<>>
    /\ arrival = Empty
    /\ last = [op |-> "start"]
    /\ InitNet

\* the node without its HTTP API: peers, the file drop, the main loop
NextNode ==
    \/ InboundP2P
    \/ HandleIncomingFile
    \/ Checkpoint

SpecNode == Init /\ [][NextNode]_vars

(***************************************************************************)
(* Properties of the node: commit pipeline and admission gate.             *)
(***************************************************************************)
\* the step just taken was a checkpoint of the main loop
CheckpointStep == last'.op = "checkpoint" /\ next_block' # next_block

\* C1: when a step of the commit pipeline fails (finalization, contract
\* execution, begin, insert of the block, insert of a tx_index row, commit),
\* then afterwards the block is not in blocks, no tx_index row points to it,
\* the balances are what they were, and each of its transactions is in the
\* mempool.
C1_CommitAtomicity ==
    [][(CheckpointStep /\ last'.failed # "none") =>
          /\ \A b \in blocks' : b.id # last'.block_id
          /\ \A r \in tx_index' : r.block_id # last'.block_id
          /\ balances' = balances
          /\ \A i \in 1..Len(last'.txs) :
                /\ last'.txs[i].id \in DOMAIN mempool'
                /\ mempool'[last'.txs[i].id] = last'.txs[i]]_vars

\* C1 witness: a checkpoint failed at a tx_index insert, after the insert of
\* the block
C1_Witness ==
    /\ last.op = "checkpoint"
    /\ last.failed = "tx_index"
    /\ Len(last.txs) > 0

\* C2: after a successful commit no transaction of the block is left in the
\* mempool (the KV prefix mempool:).
C2_CommittedLeaveMempool ==
    (last.op = "checkpoint" /\ last.failed = "none") =>
        \A i \in 1..Len(last.txs) : last.txs[i].id \notin DOMAIN mempool

\* C3: every block in blocks carries the signatures of at least 2f+1 of the
\* 3f+1 validators.
C3_BlocksCarryQuorum ==
    LET f == (N_VALIDATORS - 1) \div 3
    IN  \A b \in blocks : Len(b.validator_signatures) >= 2 * f + 1

\* C5: a successful commit moves, for each transaction with an ok receipt,
\* amount + fee out of the sender's balance and amount into the recipient's.
C5_BalancesFollowReceipts ==
    [][(CheckpointStep /\ last'.failed = "none") =>
          balances' = UpdateBalances(balances, last'.txs, last'.results, {}, 1)]_vars

\* C6: a transaction put in the mempool by the inbound handler or by the file
\* drop carries a well-formed public key and the signature made with that key
\* over its sender:recipient:amount message.
C6_SignatureGate ==
    (last.op \in {"inbound", "file"} /\ last.added) =>
        /\ \E k \in Keys : last.txn.public_key = PubKey(k)
        /\ last.txn.signature =
               SigBy(last.txn.public_key.key,
                     TransferMessage(last.txn.sender, last.txn.recipient, last.txn.amount))
        /\ last.txn.id \in DOMAIN mempool

\* C6 witness: both paths have admitted a transaction
C6_Witness ==
    /\ last.op = "file"
    /\ last.added
    /\ \E id \in DOMAIN mempool : mempool[id].fee > 0

(***************************************************************************)
(* POST /tx/submit (api.rs)                                                *)
(***************************************************************************)
\* rows the relational store holds when the node starts: a tx_index row with
\* a tx_hash and a transactions row with an idempotency_key, the columns the
\* two lookups of submit_tx read
KnownHash == "h0"
KnownKey == "k0"
InitialTxIndex == {[tx_hash |-> KnownHash, tx_id |-> 0, block_id |-> 0]}
InitialTransactions ==
    {[tx_id |-> 0, tx_hash |-> KnownHash, sender |-> "alice", recipient |-> "bob",
      status |-> "pending", idempotency_key |-> KnownKey]}

\* the JSON payload of a submission: public_key and signature are strings or absent
Payload(pk, sg) == [public_key |-> pk, signature |-> sg, amount |-> 1, fee |-> 1]
\* payloads signed rightly, with another key, and with a string that is not hex
SignedPayloads(tx_hash) ==
    { Payload(PubKey("kA"), sg) :
        sg \in {SigBy("kA", <<tx_hash>>), SigBy("kB", <<tx_hash>>), NotHexSig} }
\* and payloads without both strings, which submit_tx does not verify
Payloads(tx_hash) ==
    SignedPayloads(tx_hash) \cup {Payload(NoString, NoString), Payload(NoString, NotHexSig)}

\* IncomingTxn
IncomingTxn(tx_hash, sender, recipient, payload, key) ==
    [tx_hash |-> tx_hash, sender |-> sender, recipient |-> recipient, payload |-> payload,
     signature |-> NoString, idempotency_key |-> key]
WellFormedOf(h) ==
    { IncomingTxn(h, "alice", "bob", pl, key) : pl \in Payloads(h), key \in {NULL, KnownKey, "k1"} }
MalformedOf(h) ==
    { IncomingTxn(h, p[1], p[2], pl, NULL) :
        p \in {<<"", "bob">>, <<"alice", "">>}, pl \in SignedPayloads(h) }
Requests ==
    UNION { WellFormedOf(h) \cup MalformedOf(h) : h \in {KnownHash, "h1"} }
    \cup { IncomingTxn("", "alice", "bob", pl, NULL) : pl \in SignedPayloads("") }

\* an error answer carries no tx_id
NoTxId == -1
BadRequest(msg) == [status |-> 400, error |-> msg, tx_id |-> NoTxId, pending |-> NULL]
Duplicate == [status |-> 409, error |-> "duplicate transaction", tx_id |-> NoTxId, pending |-> NULL]
Db == [status |-> 500, error |-> "database error", tx_id |-> NoTxId, pending |-> NULL]

\* SELECT tx_hash FROM tx_index WHERE tx_hash = $1, broken: finds nothing
DuplicateByHash_FindsNothing(idx, tx_hash) == FALSE

\* SELECT tx_hash FROM tx_index WHERE tx_hash = $1
DuplicateByHash(idx, tx_hash) == \E r \in idx : r.tx_hash = tx_hash

\* the signature check of submit_tx, broken: the envelope is never verified
PayloadSignatureOk_Unchecked(incoming) == TRUE

\* the signature check of submit_tx: made only when the payload holds both a
\* public_key string and a signature string, over the bytes of tx_hash
PayloadSignatureOk(incoming) ==
    IF incoming.payload.public_key # NoString /\ incoming.payload.signature # NoString
    THEN verify_ed25519_hex(incoming.payload.public_key, incoming.payload.signature,
                            <<incoming.tx_hash>>)
    ELSE TRUE

\* SELECT tx_id FROM transactions WHERE idempotency_key = $1
ByIdempotencyKey(txns, key) == { r \in txns : r.idempotency_key = key }

\* batch_writer.rs PendingTransaction as submit_tx fills it: the
\* idempotency_key and the nonce of the request are not carried
PendingTransaction(tx_id, incoming) ==
    [tx_id |-> tx_id, tx_hash |-> incoming.tx_hash, sender |-> incoming.sender,
     recipient |-> incoming.recipient, payload |-> incoming.payload,
     signature |-> incoming.signature, amount |-> incoming.payload.amount,
     fee |-> incoming.payload.fee,
     public_key |-> IF incoming.payload.public_key # NoString
                    THEN incoming.payload.public_key ELSE EmptyString]

\* submit_tx up to the send on the channel.  db_fail: the lookup that the
\* relational store fails; tx_id: what Uuid::new_v4() gives
submit_tx(incoming, idx, txns, db_fail, tx_id) ==
    IF incoming.tx_hash = "" THEN BadRequest("tx_hash required")
    ELSE IF incoming.sender = "" \/ incoming.recipient = ""
    THEN BadRequest("sender and recipient are required")
    ELSE IF db_fail = "tx_index" THEN Db
    ELSE IF DuplicateByHash(idx, incoming.tx_hash) THEN Duplicate
    ELSE IF ~PayloadSignatureOk(incoming) THEN BadRequest("signature invalid")
    ELSE IF incoming.idempotency_key # NULL /\ db_fail = "transactions" THEN Db
    ELSE IF incoming.idempotency_key # NULL
            /\ ByIdempotencyKey(txns, incoming.idempotency_key) # {}
    THEN [status |-> 200, error |-> NULL, pending |-> NULL,
          tx_id |-> (CHOOSE r \in ByIdempotencyKey(txns, incoming.idempotency_key) : TRUE).tx_id]
    ELSE [status |-> 202, error |-> NULL, tx_id |-> tx_id,
          pending |-> PendingTransaction(tx_id, incoming)]

\* one POST /tx/submit; an accepted request is sent on the channel, which
\* takes it when it has room
SubmitTx ==
    \E incoming \in Requests, db_fail \in {"none", "tx_index", "transactions"} :
        LET r == submit_tx(incoming, tx_index, transactions, db_fail, next_uuid + 1)
        IN  /\ db_fail # "none" => r.status = 500
            /\ r.status = 202 => (next_uuid < MaxSubmits /\ Len(chan) < MaxChan)
            /\ next_uuid' = IF r.status = 202 THEN next_uuid + 1 ELSE next_uuid
            /\ chan' = IF r.status = 202 THEN Append(chan, r.pending) ELSE chan
            /\ last' = [op |-> "submit", incoming |-> incoming, db_fail |-> db_fail,
                        status |-> r.status, error |-> r.error, tx_id |-> r.tx_id]
            /\ UNCHANGED <<now, next_block, kvVars, sqlVars, batch, bftVars, extVars, arrival, netVars>>

(***************************************************************************)
(* The batch writer (batch_writer.rs)                                      *)
(***************************************************************************)
\* INSERT INTO transactions (tx_id, tx_hash, sender, recipient, payload,
\* status, created_at) ... ON CONFLICT (tx_id) DO NOTHING; the column
\* idempotency_key is not among those written
flush_to_postgres(txns, pending) ==
    txns \cup { [tx_id |-> pending[i].tx_id, tx_hash |-> pending[i].tx_hash,
                 sender |-> pending[i].sender, recipient |-> pending[i].recipient,
                 status |-> "pending", idempotency_key |-> NULL] :
                   i \in { j \in 1..Len(pending) : \A r \in txns : r.tx_id # pending[j].tx_id } }

\* the dag Transaction flush_to_rocks builds from a PendingTransaction
RocksTransaction(tx, clock) ==
    Transaction(tx.tx_id, tx.sender, tx.recipient, tx.amount, tx.fee, clock, {},
                IF tx.signature # NoString THEN tx.signature ELSE EmptySig,
                tx.public_key, "plain_json")

\* flush_to_rocks: one put per transaction, in order; the put at position
\* fail_at (0 = none) fails and ends the loop
RECURSIVE flush_to_rocks(_, _, _, _, _)
flush_to_rocks(pool, pending, clock, fail_at, pos) ==
    IF pos > Len(pending) \/ pos = fail_at THEN pool
    ELSE flush_to_rocks(add_tx(pool, RocksTransaction(pending[pos], clock)),
                        pending, clock, fail_at, pos + 1)

\* flush_batch that clears the batch after a failed insert as well
flush_batch_ClearOnPgErr(pending, txns, pool, clock, pg_fail, rocks_fail_at) ==
    IF pending = <<>> THEN [batch |-> pending, transactions |-> txns, mempool |-> pool]
    ELSE IF pg_fail THEN [batch |-> <<>>, transactions |-> txns, mempool |-> pool]
    ELSE [batch |-> <<>>,
          transactions |-> flush_to_postgres(txns, pending),
          mempool |-> flush_to_rocks(pool, pending, clock, rocks_fail_at, 1)]

\* flush_batch: a failed insert keeps the batch for the next flush; a failed
\* put is logged and the batch is cleared all the same
flush_batch(pending, txns, pool, clock, pg_fail, rocks_fail_at) ==
    IF pending = <<>> \/ pg_fail
    THEN [batch |-> pending, transactions |-> txns, mempool |-> pool]
    ELSE [batch |-> <<>>,
          transactions |-> flush_to_postgres(txns, pending),
          mempool |-> flush_to_rocks(pool, pending, clock, rocks_fail_at, 1)]

\* batch_processor, branch rx.recv(): push, and flush when the batch is full
BatchRecv ==
    \E pg_fail \in BOOLEAN, rocks_fail_at \in 0..BATCH_SIZE :
        LET pushed == Append(batch, Head(chan))
            full == Len(pushed) >= BATCH_SIZE
            flushed == flush_batch(pushed, transactions, mempool, now, pg_fail, rocks_fail_at)
        IN  /\ chan # <<>>
            /\ ~full => (~pg_fail /\ rocks_fail_at = 0)
            /\ chan' = Tail(chan)
            /\ batch' = IF full THEN flushed.batch ELSE pushed
            /\ transactions' = IF full THEN flushed.transactions ELSE transactions
            /\ mempool' = IF full THEN flushed.mempool ELSE mempool
            /\ arrival' = Arrive(arrival, mempool', now)
            /\ UNCHANGED netVars
            /\ last' = [op |-> "recv", flushed |-> full /\ ~pg_fail,
                        pg_err |-> full /\ pg_fail,
                        rocks_err |-> full /\ ~pg_fail /\ rocks_fail_at # 0]
            /\ UNCHANGED <<clockVars, dag, receipts, kv_blocks, kv_tx_index, sled_blocks>>
            /\ UNCHANGED <<blocks, tx_index, balances, bftVars, extVars>>

\* batch_processor, branch flush_timer.tick()
FlushTimer ==
    \E pg_fail \in BOOLEAN, rocks_fail_at \in 0..BATCH_SIZE :
        LET flushed == flush_batch(batch, transactions, mempool, now, pg_fail, rocks_fail_at)
        IN  /\ batch # <<>>
            /\ rocks_fail_at <= Len(batch)
            /\ batch' = flushed.batch
            /\ transactions' = flushed.transactions
            /\ mempool' = flushed.mempool
            /\ arrival' = Arrive(arrival, mempool', now)
            /\ UNCHANGED netVars
            /\ last' = [op |-> "timer", flushed |-> ~pg_fail, pg_err |-> pg_fail,
                        rocks_err |-> ~pg_fail /\ rocks_fail_at # 0]
            /\ UNCHANGED <<clockVars, dag, receipts, kv_blocks, kv_tx_index, sled_blocks>>
            /\ UNCHANGED <<chan, blocks, tx_index, balances, bftVars, extVars>>

InitApi ==
    /\ now = 0
    /\ next_uuid = 0
    /\ next_block = 0
    /\ mempool = Empty
    /\ dag = Empty
    /\ receipts = Empty
    /\ kv_blocks = {}
    /\ kv_tx_index = Empty
    /\ sled_blocks = Empty
    /\ blocks = {}
    /\ tx_index = InitialTxIndex
    /\ balances = [a \in Accounts |-> 0]
    /\ transactions = InitialTransactions
    /\ chan = <<>>
    /\ batch = <<>>
    /\ seen_signatures = Empty
    /\ InitExt
    /\ evidence = <<>>
    /\ arrival = Empty
    /\ last = [op |-> "start"]
    /\ InitNet

NextApi ==
    \/ SubmitTx
    \/ BatchRecv
    \/ FlushTimer

SpecApi == InitApi /\ [][NextApi]_vars

(***************************************************************************)
(* Properties of POST /tx/submit.                                          *)
(***************************************************************************)
\* the step just taken was the handling of one submission
SubmitStep == last'.op = "submit"

\* nothing was sent to the batch writer and no store changed
NothingQueued ==
    /\ chan' = chan
    /\ batch' = batch
    /\ transactions' = transactions
    /\ mempool' = mempool

\* the payload holds a public_key and a signature, and the signature is not
\* the one made with that key over the bytes of tx_hash
BadSignature(incoming) ==
    /\ incoming.payload.public_key # NoString
    /\ incoming.payload.signature # NoString
    /\ ~ /\ \E k \in Keys : incoming.payload.public_key = PubKey(k)
          /\ incoming.payload.signature =
                 SigBy(incoming.payload.public_key.key, <<incoming.tx_hash>>)

\* tx_hash, sender and recipient are all given
FieldsGiven(incoming) ==
    incoming.tx_hash # "" /\ incoming.sender # "" /\ incoming.recipient # ""

\* a row of tx_index holds the tx_hash
InTxIndex(tx_hash) == \E r \in tx_index : r.tx_hash = tx_hash

\* C7 (as amended): a submission whose payload carries public_key and
\* signature, where the signature does not verify over the tx_hash bytes, is
\* never queued; it is answered 400 `signature invalid` when tx_hash, sender
\* and recipient are given, tx_hash is not in tx_index and the tx_index lookup
\* succeeds, and otherwise with the answer of the earlier check (400, 409, 500).
C7_BadSignatureNeverQueued ==
    [][(SubmitStep /\ BadSignature(last'.incoming)) =>
          /\ NothingQueued
          /\ last'.status \in {400, 409, 500}
          /\ (FieldsGiven(last'.incoming) /\ ~InTxIndex(last'.incoming.tx_hash)
                 /\ last'.db_fail # "tx_index")
               => (last'.status = 400 /\ last'.error = "signature invalid")]_vars

\* C7 witness: a submission signed with another key was answered
\* 400 `signature invalid`
C7_Witness ==
    /\ last.op = "submit"
    /\ BadSignature(last.incoming)
    /\ last.incoming.payload.signature = SigBy("kB", <<last.incoming.tx_hash>>)
    /\ last.status = 400
    /\ last.error = "signature invalid"

\* C7 as stated: every submission with a signature that does not verify is
\* answered 400 `signature invalid` and is not queued.
C7_AsStated ==
    [][(SubmitStep /\ BadSignature(last'.incoming)) =>
          /\ NothingQueued
          /\ last'.status = 400
          /\ last'.error = "signature invalid"]_vars

\* C8 (as amended): a submission whose tx_hash is in tx_index queues nothing
\* and leaves the mempool and transactions as they were; it is answered 409
\* `duplicate transaction` when sender and recipient are given and the
\* tx_index lookup succeeds.
C8_KnownHashRejected ==
    [][(SubmitStep /\ InTxIndex(last'.incoming.tx_hash)) =>
          /\ NothingQueued
          /\ last'.status \in {400, 409, 500}
          /\ (FieldsGiven(last'.incoming) /\ last'.db_fail # "tx_index")
               => (last'.status = 409 /\ last'.error = "duplicate transaction")]_vars

\* C8 witness: a submission with the tx_hash of a tx_index row was answered 409
C8_Witness ==
    /\ last.op = "submit"
    /\ InTxIndex(last.incoming.tx_hash)
    /\ last.status = 409

\* C8 as stated: every submission whose tx_hash is in tx_index is answered 409
\* and queues nothing.
C8_AsStated ==
    [][(SubmitStep /\ InTxIndex(last'.incoming.tx_hash)) =>
          (NothingQueued /\ last'.status = 409)]_vars

\* the tx_hash came with an earlier submission that was accepted: it waits in
\* the channel or in the batch, or has a row in transactions
HashSubmitted(tx_hash) ==
    \/ \E i \in 1..Len(chan) : chan[i].tx_hash = tx_hash
    \/ \E i \in 1..Len(batch) : batch[i].tx_hash = tx_hash
    \/ \E r \in transactions : r.tx_hash = tx_hash

\* C9: a submission whose tx_hash was accepted before is answered 409
\* `duplicate transaction`, at whatever stage the first one is.
C9_SecondSubmissionRejected ==
    [][(SubmitStep /\ FieldsGiven(last'.incoming) /\ last'.db_fail = "none"
          /\ HashSubmitted(last'.incoming.tx_hash)) =>
          last'.status = 409]_vars

\* C10: of two submissions in a row with the same idempotency_key, both
\* answered with a tx_id, the second gets the tx_id of the first and queues
\* nothing.
C10_SameKeySameTxId ==
    [][(/\ last.op = "submit"
        /\ SubmitStep
        /\ last.status \in {200, 202}
        /\ last'.status \in {200, 202}
        /\ last.incoming.idempotency_key # NULL
        /\ last'.incoming.idempotency_key = last.incoming.idempotency_key) =>
          (last'.tx_id = last.tx_id /\ NothingQueued)]_vars

(***************************************************************************)
(* BFT signature bookkeeping (bft/state.rs)                                *)
(***************************************************************************)
Validators == {"NodeA", "NodeB"}
BlockHashes == {"X", "Y"}

\* struct Equivocation
Equivocation(validator, round, existing, conflicting) ==
    [validator |-> validator, round |-> round, existing |-> existing, conflicting |-> conflicting]

\* persist_evidence: INSERT INTO evidence (id, validator, round,
\* existing_block, conflicting_block); the result of execute is dropped, so a
\* statement the store refuses leaves the table as it was and is not reported
persist_evidence(rows, e, insert_ok) ==
    IF insert_ok
    THEN Append(rows, [id |-> Len(rows) + 1, validator |-> e.validator, round |-> e.round,
                       existing_block |-> e.existing, conflicting_block |-> e.conflicting])
    ELSE rows

\* BFTState::record_signature
record_signature(seen, rows, validator, round, block_hash, insert_ok) ==
    LET key == <<validator, round>>
    IN  IF key \in DOMAIN seen
        THEN IF seen[key] # block_hash
             THEN LET equivocation == Equivocation(validator, round, seen[key], block_hash)
                  IN  [seen |-> seen,
                       evidence |-> persist_evidence(rows, equivocation, insert_ok),
                       result |-> [err |-> TRUE, equivocation |-> equivocation]]
             ELSE [seen |-> seen, evidence |-> rows, result |-> [err |-> FALSE]]
        ELSE [seen |-> Put(seen, key, block_hash), evidence |-> rows, result |-> [err |-> FALSE]]

\* one vote handed to record_signature
RecordSignature ==
    \E validator \in Validators, round \in 1..MaxView, block_hash \in BlockHashes,
       insert_ok \in BOOLEAN :
        LET r == record_signature(seen_signatures, evidence, validator, round, block_hash, insert_ok)
        IN  /\ Len(r.evidence) <= MaxEvidence
            /\ ~r.result.err => insert_ok
            /\ seen_signatures' = r.seen
            /\ evidence' = r.evidence
            /\ last' = [op |-> "record_signature", validator |-> validator, round |-> round,
                        block_hash |-> block_hash, result |-> r.result]
            /\ UNCHANGED <<clockVars, kvVars, sqlVars, writerVars, arrival, netVars, extVars>>

NextBft == RecordSignature

SpecBft == Init /\ [][NextBft]_vars

\* C4: when a validator's signature on X is recorded for a view and its
\* signature on a different Y arrives for that view, record_signature reports
\* the equivocation and one row (validator, view, existing = X,
\* conflicting = Y) is added to evidence.
C4_EquivocationPersisted ==
    [][(/\ last'.op = "record_signature"
        /\ <<last'.validator, last'.round>> \in DOMAIN seen_signatures
        /\ seen_signatures[<<last'.validator, last'.round>>] # last'.block_hash) =>
          /\ last'.result.err
          /\ Len(evidence') = Len(evidence) + 1
          /\ LET row == evidence'[Len(evidence')]
             IN  /\ row.validator = last'.validator
                 /\ row.round = last'.round
                 /\ row.existing_block = seen_signatures[<<last'.validator, last'.round>>]
                 /\ row.conflicting_block = last'.block_hash]_vars

(***************************************************************************)
(* Properties of the mempool.                                              *)
(***************************************************************************)
\* C11: no two transactions in the mempool have the same
\* (sender, chain_id, nonce).
C11_NonceUnique ==
    \A i \in DOMAIN mempool : \A j \in DOMAIN mempool :
        i # j => <<mempool[i].sender, mempool[i].chain_id, mempool[i].nonce>>
                   # <<mempool[j].sender, mempool[j].chain_id, mempool[j].nonce>>

(***************************************************************************)
(* pop_for_block as a function of the mempool, the clock and the limit.    *)
(***************************************************************************)
\* the hours the clock can show
Clocks == { h \in 0..MaxNow : h % TickStep = 0 }

\* a mempool entry with the given fee and timestamp
PoolTxn(id, fee, ts) ==
    Transaction(id, "alice", "bob", 1, fee, ts, {},
                SigBy("kA", TransferMessage("alice", "bob", 1)), PubKey("kA"), "none")

\* the mempools of up to MaxPool entries
Pools ==
    UNION { [ids -> { [fee |-> f, ts |-> t] : f \in 0..MaxFee, t \in Clocks }] :
              ids \in SUBSET (1..MaxPool) }

InitPop ==
    /\ now \in Clocks
    /\ next_uuid = MaxPool
    /\ next_block = 0
    /\ \E p \in Pools :
         /\ mempool = [id \in DOMAIN p |-> PoolTxn(id, p[id].fee, p[id].ts)]
         /\ arrival = [id \in DOMAIN p |-> p[id].ts]
    /\ dag = Empty
    /\ receipts = Empty
    /\ kv_blocks = {}
    /\ kv_tx_index = Empty
    /\ sled_blocks = Empty
    /\ blocks = {}
    /\ tx_index = {}
    /\ balances = [a \in Accounts |-> 0]
    /\ transactions = {}
    /\ chan = <<>>
    /\ batch = <<>>
    /\ seen_signatures = Empty
    /\ InitExt
    /\ evidence = <<>>
    /\ last = [op |-> "start"]
    /\ InitNet

\* one call of Mempool::pop_for_block(limit)
PopForBlock ==
    \E limit \in 0..(MaxPool + 1) :
        /\ last' = [op |-> "pop", limit |-> limit, at |-> now,
                    result |-> pop_for_block(mempool, now, limit)]
        /\ UNCHANGED <<clockVars, kvVars, sqlVars, writerVars, bftVars, extVars, arrival, netVars>>

NextPop == PopForBlock

SpecPop == InitPop /\ [][NextPop]_vars

\* the ids of the entries younger than the TTL
Unexpired == { id \in DOMAIN mempool : now - mempool[id].timestamp < TTL_HOURS }

Tick ==
    /\ now + TickStep <= MaxNow
    /\ now' = now + TickStep
    /\ last' = [op |-> "tick"]
    /\ UNCHANGED <<next_uuid, next_block, kvVars, sqlVars, writerVars, bftVars, extVars, arrival, netVars>>

\* lib.rs inbound handler: the transaction is stored as the peer sent it,
\* timestamp included
InboundPeerClock == Inbound(Clocks)

NextTtl == InboundPeerClock \/ HandleIncomingFile \/ Tick \/ PopForBlock

SpecTtl == Init /\ [][NextTtl]_vars

\* C13: every transaction returned by pop_for_block arrived in the mempool
\* at most 24 hours before the call.
C13_NoneOlderThanTtl ==
    last.op = "pop" =>
        \A i \in 1..Len(last.result) :
            last.at - arrival[last.result[i].id] <= TTL_HOURS

(***************************************************************************)
(* The batch writer under its scheduling: the worker loops over            *)
(* tokio::select!, so a queued transaction is received, and the flush      *)
(* timer fires every FLUSH_INTERVAL_MS; the relational store accepts a     *)
(* write again and again.                                                  *)
(***************************************************************************)
\* a flush whose INSERT INTO transactions succeeded
FlushSucceeds == (BatchRecv \/ FlushTimer) /\ last'.flushed

SpecApiFair ==
    /\ SpecApi
    /\ WF_vars(BatchRecv)
    /\ WF_vars(FlushTimer)
    /\ SF_vars(FlushSucceeds)

\* POST /tx/submit has just answered 202 with this tx_id
Accepted(id) ==
    IF last.op = "submit" THEN last.status = 202 /\ last.tx_id = id ELSE FALSE

\* the transaction is a pending row of `transactions` and a mempool entry
Stored(id) ==
    /\ \E r \in transactions : r.tx_id = id /\ r.status = "pending"
    /\ id \in DOMAIN mempool

\* C14: every transaction accepted with 202 eventually is a pending row of
\* `transactions` and an entry of the KV store under mempool:<tx_id>.
C14_AcceptedEventuallyStored ==
    \A id \in 1..MaxSubmits : Accepted(id) ~> Stored(id)

\* a request that passes every check of submit_tx and is handed to
\* BatchWriter::submit
Acceptable(incoming) ==
    submit_tx(incoming, tx_index, transactions, "none", next_uuid + 1).status = 202

\* BatchWriter::submit can return now: the send on the channel completes
\* without a receive of the worker
SubmitReturns == ENABLED (SubmitTx /\ last'.status = 202)

\* C15: BatchWriter::submit returns without waiting for the worker, also
\* when the channel holds its full capacity.
C15_SubmitNeverWaits ==
    (next_uuid < MaxSubmits /\ \E incoming \in Requests : Acceptable(incoming))
        => SubmitReturns

(***************************************************************************)
(* vm.rs in full: the SBT contract and execute_contracts over a KV store   *)
(* with the key spaces sbt:<sbt_id> and receipt:<tx_id>.  The operator     *)
(* execute_contracts above is this one for payloads without SBT            *)
(* operations, with a receipt reduced to its status.                       *)
(***************************************************************************)
\* Transaction.payload: None, a string that is not JSON, or a JSON object
\* with the fields contract, op and sbt_id (NULL = field absent)
NoPayload == [kind |-> "none"]
Unparsable == [kind |-> "unparsable"]
Json(contract, op, sbt_id) ==
    [kind |-> "json", contract |-> contract, op |-> op, sbt_id |-> sbt_id]
VmPayloads ==
    {NoPayload, Unparsable, Json(NULL, NULL, NULL), Json("token", "mint", "s1"),
     Json("sbt", NULL, "s1"), Json("sbt", "burn", "s1")}
    \cup { Json("sbt", op, id) : op \in {"mint", "revoke"}, id \in {NULL, "s1"} }

\* the transaction at position id of a list
VmTxn(id, sender, payload) ==
    Transaction(id, sender, IF sender = "alice" THEN "bob" ELSE "alice", 1, 0, 0, {},
                EmptySig, PubKey(KeyOf(sender)), payload)

\* the ordered lists of up to MaxTxs transactions
TxLists ==
    UNION { { [i \in 1..n |-> VmTxn(i, shape[i][1], shape[i][2])] :
                shape \in [1..n -> Accounts \X VmPayloads] } : n \in 0..MaxTxs }

\* a fresh store; writes counts the puts attempted
FreshDb == [sbt |-> Empty, receipt |-> Empty, writes |-> 0]

\* sled_storage::put_str: the put numbered fail_at is refused (0 = none)
put_str(db, space, key, value, fail_at) ==
    IF db.writes + 1 = fail_at
    THEN [ok |-> FALSE, db |-> [db EXCEPT !.writes = @ + 1]]
    ELSE [ok |-> TRUE,
          db |-> [db EXCEPT !.writes = @ + 1, ![space] = Put(@, key, value)]]

\* the timestamp written into a minted record, broken: the wall clock
MintTimestamp_WallClock(tx, clock) == clock

\* the timestamp written into a minted record: tx.timestamp.to_rfc3339()
MintTimestamp(tx, clock) == tx.timestamp

\* Result<JsonValue, String> of Contract::execute
ContractOk(value, db) == [ok |-> TRUE, value |-> value, db |-> db]
ContractErr(msg, db) == [ok |-> FALSE, value |-> [error |-> msg], db |-> db]

\* SBTContract::execute
SBTContract_execute(db, tx, fail_at, clock) ==
    LET p == tx.payload
    IN  IF p.kind = "none" THEN ContractErr("missing payload", db)
        ELSE IF p.kind = "unparsable" THEN ContractErr("parse error", db)
        ELSE IF p.op = NULL THEN ContractErr("missing op", db)
        ELSE IF p.op = "mint"
        THEN IF p.sbt_id = NULL THEN ContractErr("missing sbt_id", db)
             ELSE LET store_obj == [sbt_id |-> p.sbt_id, issuer |-> tx.sender,
                                    mint_tx |-> tx.id,
                                    timestamp |-> MintTimestamp(tx, clock)]
                      w == put_str(db, "sbt", p.sbt_id, store_obj, fail_at)
                  IN  IF w.ok
                      THEN ContractOk([status |-> "minted", sbt_id |-> p.sbt_id], w.db)
                      ELSE ContractErr("failed to store sbt", w.db)
        ELSE IF p.op = "revoke"
        THEN IF p.sbt_id = NULL THEN ContractErr("missing sbt_id", db)
             ELSE IF p.sbt_id \in DOMAIN db.sbt
             THEN LET old == db.sbt[p.sbt_id]
                      existing == [sbt_id |-> old.sbt_id, issuer |-> old.issuer,
                                   mint_tx |-> old.mint_tx, timestamp |-> old.timestamp,
                                   revoked |-> TRUE, revoked_by |-> tx.sender,
                                   revoked_at |-> tx.timestamp]
                      w == put_str(db, "sbt", p.sbt_id, existing, fail_at)
                  IN  IF w.ok
                      THEN ContractOk([status |-> "revoked", sbt_id |-> p.sbt_id], w.db)
                      ELSE ContractErr("failed to update sbt", w.db)
             ELSE ContractErr("sbt not found", db)
        ELSE ContractErr("unsupported op", db)

\* vm::TxResult; result None is NoResult
NoResult == [none |-> TRUE]
TxResult(tx, status, result) == [tx_id |-> tx.id, status |-> status, result |-> result]

\* a failed transaction, broken: the run is given up
Failed_Abort(db, tx, value) == [abort |-> TRUE, db |-> db, result |-> NoResult]

\* a failed transaction is pushed to the results and the loop goes on
Failed(db, tx, value) ==
    [abort |-> FALSE, db |-> db, result |-> TxResult(tx, "failed", value)]

\* the minimal receipt of a transaction without contract
MinimalReceipt(tx) ==
    [tx_id |-> tx.id, sender |-> tx.sender, recipient |-> tx.recipient,
     amount |-> tx.amount, status |-> "ok"]

\* the receipt put of an ok transaction: a refused put ends the run with Err
ReceiptPut(db, tx, receipt, result, fail_at) ==
    LET w == put_str(db, "receipt", tx.id, receipt, fail_at)
    IN  IF w.ok THEN [abort |-> FALSE, db |-> w.db, result |-> TxResult(tx, "ok", result)]
        ELSE [abort |-> TRUE, db |-> w.db, result |-> NoResult]

\* the body of the loop of execute_contracts for one transaction
ExecuteOne(db, tx, fail_at, clock) ==
    LET p == tx.payload
    IN  IF p.kind = "unparsable" THEN Failed(db, tx, [error |-> "parse error"])
        ELSE IF p.kind = "json" /\ p.contract # NULL
        THEN LET res == IF p.contract = "sbt"
                        THEN SBTContract_execute(db, tx, fail_at, clock)
                        ELSE ContractErr("unknown native contract", db)
             IN  IF res.ok THEN ReceiptPut(res.db, tx, res.value, res.value, fail_at)
                 ELSE Failed(res.db, tx, res.value)
        ELSE ReceiptPut(db, tx, MinimalReceipt(tx), NoResult, fail_at)

\* vm::execute_contracts(db, txs): Ok(results), or Err once a receipt put is
\* refused, the puts before it staying in the store
RECURSIVE vm_execute_contracts(_, _, _, _, _)
vm_execute_contracts(db, txs, fail_at, clock, pos) ==
    IF pos > Len(txs) THEN [ok |-> TRUE, results |-> <<>>, db |-> db]
    ELSE LET one == ExecuteOne(db, txs[pos], fail_at, clock)
         IN  IF one.abort THEN [ok |-> FALSE, results |-> <<>>, db |-> one.db]
             ELSE LET rest == vm_execute_contracts(one.db, txs, fail_at, clock, pos + 1)
                  IN  [ok |-> rest.ok, db |-> rest.db,
                       results |-> IF rest.ok THEN <<one.result>> \o rest.results ELSE <<>>]

\* the puts a run of txs attempts when none is refused
WritesOf(txs) == vm_execute_contracts(FreshDb, txs, 0, 0, 1).db.writes

\* execute_contracts on two fresh stores with the same list, the second run
\* TickStep hours after the first; each store may refuse one put
ExecuteOnTwoStores ==
    \E txs \in TxLists :
      \E fail1 \in 0..WritesOf(txs), fail2 \in 0..WritesOf(txs) :
        /\ last' = [op |-> "exec", txs |-> txs, fail1 |-> fail1, fail2 |-> fail2,
                    run1 |-> vm_execute_contracts(FreshDb, txs, fail1, now, 1),
                    run2 |-> vm_execute_contracts(FreshDb, txs, fail2, now + TickStep, 1)]
        /\ UNCHANGED <<clockVars, kvVars, sqlVars, writerVars, bftVars, extVars, arrival, netVars>>

NextVm == ExecuteOnTwoStores

SpecVm == Init /\ [][NextVm]_vars

\* the receipts and the contract records a run left in its store
StateOf(run) == [receipt |-> run.db.receipt, sbt |-> run.db.sbt]

MustFail(tx) ==
    \/ tx.payload.kind = "unparsable"
    \/ /\ tx.payload.kind = "json"
       /\ tx.payload.contract # NULL
       /\ \/ tx.payload.contract # "sbt"
          \/ tx.payload.op \notin {NULL, "mint", "revoke"}

\* one result per transaction of the list, in its order, failed with an
\* error object where the transaction must fail
OneResultEach(txs, run) ==
    /\ Len(run.results) = Len(txs)
    /\ \A i \in 1..Len(txs) :
         /\ run.results[i].tx_id = txs[i].id
         /\ MustFail(txs[i]) =>
              /\ run.results[i].status = "failed"
              /\ DOMAIN run.results[i].result = {"error"}
         /\ run.results[i].status = "ok" => txs[i].id \in DOMAIN run.db.receipt

\* C17: execute_contracts returns Ok when no put is refused, and whenever
\* it returns Ok it returns one result per transaction, in input order, a
\* transaction that must fail being failed with an error object and the
\* transactions after it executed.
C17_OneResultPerTx ==
    last.op = "exec" =>
        /\ last.fail1 = 0 => last.run1.ok
        /\ last.run1.ok => OneResultEach(last.txs, last.run1)

\* C17 witness: a transaction whose payload does not parse was failed and
\* the transaction after it executed
C17_Witness ==
    /\ last.op = "exec"
    /\ last.run1.ok
    /\ Len(last.txs) = 2
    /\ last.txs[1].payload = Unparsable
    /\ last.run1.results[1].status = "failed"
    /\ last.run1.results[2].status = "ok"

\* C17 as stated: execute_contracts returns one result per transaction, in
\* input order, whatever the store does.
C17_AsStated ==
    last.op = "exec" => OneResultEach(last.txs, last.run1)

\* C18: after a checkpoint executed and committed a block, every
\* transaction of the block, ok or failed, has a receipt under
\* receipt:<tx_id>.
C18_EveryTxHasReceipt ==
    (last.op = "checkpoint" /\ last.failed = "none") =>
        \A i \in 1..Len(last.txs) : last.txs[i].id \in DOMAIN receipts

\* the contract records of the first store once the first n transactions of
\* the list were executed
SbtAfter(n) ==
    vm_execute_contracts(FreshDb, SubSeq(last.txs, 1, n), last.fail1, 0, 1).db.sbt

\* the transaction is a revoke of an SBT that exists when it is executed
RevokeOfExisting(i) ==
    /\ last.txs[i].payload.kind = "json"
    /\ last.txs[i].payload.contract = "sbt"
    /\ last.txs[i].payload.op = "revoke"
    /\ last.txs[i].payload.sbt_id \in DOMAIN SbtAfter(i - 1)

\* C19: a revoke of an existing SBT by a sender other than the issuer stored
\* in sbt:<id> is failed and leaves the record as it was.
C19_OnlyIssuerRevokes ==
    (last.op = "exec" /\ last.run1.ok) =>
        \A i \in 1..Len(last.txs) :
            (/\ RevokeOfExisting(i)
             /\ SbtAfter(i - 1)[last.txs[i].payload.sbt_id].issuer # last.txs[i].sender) =>
                /\ last.run1.results[i].status = "failed"
                /\ SbtAfter(i) = SbtAfter(i - 1)

(***************************************************************************)
(* network.rs: the dedupe cache shared by the listener, the connection     *)
(* manager and the broadcaster, each of which takes its lock around the    *)
(* lookup and the insert.                                                  *)
(***************************************************************************)
\* handshake::Envelope: a type and a payload; "tx1" is the JSON of a
\* Transaction, "junk" JSON that is not one
Envelope(typ, payload) == [typ |-> typ, payload |-> payload]
Envelopes == { Envelope(t, p) : t \in {"gossip_tx", "ping", ""}, p \in {"tx1", "junk"} }

\* the message identifier of an envelope: sha256(type || canonical_payload)
message_id_from_envelope(env) == <<env.typ, env.payload>>

\* the lookup of the dedupe cache, broken: no id is ever found
IsDuplicate_NeverFound(ded, msgid, clock) == FALSE

\* if let Some(exp) = ded.get(&msgid) { if *exp > Instant::now() { continue; } }
IsDuplicate(ded, msgid, clock) == msgid \in DOMAIN ded /\ ded[msgid] > clock

\* ded.insert(msgid, Instant::now() + Duration::from_secs(300))
Remember(ded, msgid, clock) == Put(ded, msgid, clock + DEDUPE_SECS)

\* the read loops of the listener and of the connection manager: one frame
\* that parses as an envelope
EnvelopeFromPeer ==
    \E env \in Envelopes :
        LET msgid == message_id_from_envelope(env)
            skipped == env.typ = ""
            dropped == ~skipped /\ IsDuplicate(dedupe, msgid, instant)
            delivered == ~skipped /\ ~dropped /\ env.typ = "gossip_tx" /\ env.payload = "tx1"
        IN  /\ delivered => Len(inbound_rx) < MaxLog
            /\ dedupe' = IF skipped \/ dropped THEN dedupe
                         ELSE Remember(dedupe, msgid, instant)
            /\ inbound_rx' = IF delivered
                             THEN Append(inbound_rx, [msgid |-> msgid, at |-> instant])
                             ELSE inbound_rx
            /\ last' = [op |-> "envelope", msgid |-> msgid, skipped |-> skipped,
                        dropped |-> dropped]
            /\ UNCHANGED <<instant, forwarded, peerVars>>
            /\ UNCHANGED <<clockVars, kvVars, sqlVars, writerVars, bftVars, extVars, arrival>>

\* the broadcaster: a transaction handed to it locally is wrapped in a
\* gossip_tx envelope and fanned out unless its id is in the cache
Broadcast ==
    LET env == Envelope("gossip_tx", "tx1")
        msgid == message_id_from_envelope(env)
        dropped == IsDuplicate(dedupe, msgid, instant)
    IN  /\ ~dropped => Len(forwarded) < MaxLog
        /\ dedupe' = IF dropped THEN dedupe ELSE Remember(dedupe, msgid, instant)
        /\ forwarded' = IF dropped THEN forwarded
                        ELSE Append(forwarded, [msgid |-> msgid, at |-> instant])
        /\ last' = [op |-> "broadcast", msgid |-> msgid, skipped |-> FALSE,
                    dropped |-> dropped]
        /\ UNCHANGED <<instant, inbound_rx, peerVars>>
        /\ UNCHANGED <<clockVars, kvVars, sqlVars, writerVars, bftVars, extVars, arrival>>

\* the prune task, every 30 seconds: guard.retain(|_, expiry| *expiry > now)
PruneDedupe ==
    /\ dedupe' = [m \in { k \in DOMAIN dedupe : dedupe[k] > instant } |-> dedupe[m]]
    /\ last' = [op |-> "prune"]
    /\ UNCHANGED <<instant, inbound_rx, forwarded, peerVars>>
    /\ UNCHANGED <<clockVars, kvVars, sqlVars, writerVars, bftVars, extVars, arrival>>

\* NetStep seconds pass
TickNet ==
    /\ instant + NetStep <= MaxInstant
    /\ instant' = instant + NetStep
    /\ last' = [op |-> "tick"]
    /\ UNCHANGED <<dedupe, inbound_rx, forwarded, peerVars>>
    /\ UNCHANGED <<clockVars, kvVars, sqlVars, writerVars, bftVars, extVars, arrival>>

NextNet == EnvelopeFromPeer \/ Broadcast \/ PruneDedupe \/ TickNet

SpecNet == Init /\ [][NextNet]_vars

\* the envelopes delivered and the envelopes forwarded, as (kind, position)
Processed ==
    { <<"delivered", i>> : i \in 1..Len(inbound_rx) }
        \cup { <<"forwarded", i>> : i \in 1..Len(forwarded) }
EntryOf(e) == IF e[1] = "delivered" THEN inbound_rx[e[2]] ELSE forwarded[e[2]]

\* C20: two envelopes with the same message id that were delivered to the
\* inbound channel or forwarded to peers were processed at least
\* DEDUPE_SECS seconds apart.
C20_OncePerWindow ==
    \A e1 \in Processed : \A e2 \in Processed :
        (e1 # e2 /\ EntryOf(e1).msgid = EntryOf(e2).msgid) =>
            \/ EntryOf(e1).at - EntryOf(e2).at >= DEDUPE_SECS
            \/ EntryOf(e2).at - EntryOf(e1).at >= DEDUPE_SECS

\* C20 witness: an envelope from a peer was dropped because the broadcaster
\* had forwarded its id less than DEDUPE_SECS seconds before, after an
\* earlier processing of that id had expired
C20_Witness ==
    /\ last.op = "envelope"
    /\ last.dropped
    /\ Len(forwarded) >= 1
    /\ Len(inbound_rx) >= 1
    /\ forwarded[Len(forwarded)].msgid = last.msgid
    /\ inbound_rx[1].msgid = last.msgid
    /\ instant - forwarded[Len(forwarded)].at < DEDUPE_SECS
    /\ instant > forwarded[Len(forwarded)].at

(***************************************************************************)
(* network.rs, broadcaster: the bounded fan-out selection.                 *)
(***************************************************************************)
\* the snapshot of a connections map with n entries: a list of n distinct
\* addresses
ConnsSnapshot(n) == [i \in 1..n |-> i]

\* the while loop of the selection, broken: it picks MAX_FANOUT + 1 peers
RECURSIVE PickLoop_OneMore(_, _, _, _)
PickLoop_OneMore(snapshot, idx, picked, targets) ==
    LET n == Len(snapshot)
    IN  IF picked < (IF MAX_FANOUT + 1 < n THEN MAX_FANOUT + 1 ELSE n)
        THEN PickLoop_OneMore(snapshot, (idx + 1) % n, picked + 1,
                              Append(targets, snapshot[idx + 1]))
        ELSE targets

\* while picked < min(MAX_FANOUT, n) { targets.push(snapshot[idx]);
\* picked += 1; idx = (idx + 1) % n; }   (idx counts from 0)
RECURSIVE PickLoop(_, _, _, _)
PickLoop(snapshot, idx, picked, targets) ==
    LET n == Len(snapshot)
    IN  IF picked < (IF MAX_FANOUT < n THEN MAX_FANOUT ELSE n)
        THEN PickLoop(snapshot, (idx + 1) % n, picked + 1,
                      Append(targets, snapshot[idx + 1]))
        ELSE targets

\* the targets of one broadcast
SelectTargets(snapshot, start_byte) ==
    IF snapshot = <<>> THEN <<>>
    ELSE PickLoop(snapshot, start_byte % Len(snapshot), 0, <<>>)

\* one broadcast that passed the dedupe cache, with n connections open and a
\* message id whose first byte is start_byte
FanOut ==
    /\ last.op = "to_broadcast"
    /\ last' = [op |-> "fanout", n |-> last.n, start_byte |-> last.start_byte,
                targets |-> SelectTargets(ConnsSnapshot(last.n), last.start_byte)]
    /\ UNCHANGED <<clockVars, kvVars, sqlVars, writerVars, bftVars, extVars, netVars, arrival>>

\* the broadcaster holds a message id and a snapshot of the connections
InitFanout ==
    /\ now = 0
    /\ next_uuid = 0
    /\ next_block = 0
    /\ mempool = Empty
    /\ dag = Empty
    /\ receipts = Empty
    /\ kv_blocks = {}
    /\ kv_tx_index = Empty
    /\ sled_blocks = Empty
    /\ blocks = {}
    /\ tx_index = {}
    /\ balances = [a \in Accounts |-> 0]
    /\ transactions = {}
    /\ chan = <<>>
    /\ batch = <<>>
    /\ seen_signatures = Empty
    /\ InitExt
    /\ evidence = <<>>
    /\ arrival = Empty
    /\ InitNet
    /\ \E n \in 0..MaxConns, start_byte \in 0..U8_MAX :
         last = [op |-> "to_broadcast", n |-> n, start_byte |-> start_byte]

NextFanout == FanOut

SpecFanout == InitFanout /\ [][NextFanout]_vars

\* C21: the targets of a broadcast with N connections open are min(8, N)
\* pairwise distinct peers, the k-th being the entry of the snapshot at
\* index (msgid[0] + k) mod N.
C21_BoundedFanout ==
    last.op = "fanout" =>
        LET t == last.targets
            n == last.n
        IN  /\ Len(t) = IF MAX_FANOUT < n THEN MAX_FANOUT ELSE n
            /\ Len(t) <= MAX_FANOUT
            /\ \A i \in 1..Len(t) : \A j \in 1..Len(t) : i # j => t[i] # t[j]
            /\ \A k \in 1..Len(t) :
                 t[k] = ConnsSnapshot(n)[((last.start_byte + k - 1) % n) + 1]

\* C21 witness: with more than MAX_FANOUT connections open the selection
\* wrapped around the end of the snapshot
C21_Witness ==
    /\ last.op = "fanout"
    /\ last.n > MAX_FANOUT
    /\ Len(last.targets) = MAX_FANOUT
    /\ last.targets[1] = last.n
    /\ last.targets[2] = 1

(***************************************************************************)
(* network.rs: the peer store and the per-peer rate limit, which the       *)
(* broadcaster applies before it queues an envelope to a connection and    *)
(* the connection's sender task applies again before it writes it out.     *)
(* The clock of current_unix() is `instant`.                               *)
(***************************************************************************)
Peers == 1..MaxPeers
\* Option<u64>::None
NoUnix == -1
\* PeerEntry::new
PeerEntry(addr, clock) ==
    [addr |-> addr, last_seen_unix |-> clock, failures |-> 0,
     banned_until_unix |-> NoUnix, rate_window_start_unix |-> clock, rate_count |-> 0]

\* the variables of the node, the API and the BFT state at rest
InitQuiet ==
    /\ now = 0
    /\ next_uuid = 0
    /\ next_block = 0
    /\ mempool = Empty
    /\ dag = Empty
    /\ receipts = Empty
    /\ kv_blocks = {}
    /\ kv_tx_index = Empty
    /\ sled_blocks = Empty
    /\ blocks = {}
    /\ tx_index = {}
    /\ balances = [a \in Accounts |-> 0]
    /\ transactions = {}
    /\ chan = <<>>
    /\ batch = <<>>
    /\ seen_signatures = Empty
    /\ InitExt
    /\ evidence = <<>>
    /\ arrival = Empty

\* the rate check on a peer entry: a window that has ended is restarted with
\* count 0; then the envelope is refused at MAX_PER_WINDOW and counted
\* otherwise
rate_limit(entry, clock) ==
    LET e == IF clock >= entry.rate_window_start_unix + WINDOW_SECS
             THEN [entry EXCEPT !.rate_window_start_unix = clock, !.rate_count = 0]
             ELSE entry
    IN  IF e.rate_count >= MAX_PER_WINDOW THEN [allow |-> FALSE, entry |-> e]
        ELSE [allow |-> TRUE, entry |-> [e EXCEPT !.rate_count = @ + 1]]

\* the failure accounting shared by the broadcaster and the connection task
\* (the ban is BAN_FAILURES failures, BAN_SECS seconds)
BAN_FAILURES == 5
BAN_SECS == 300
mark_failure(entry, clock) ==
    [entry EXCEPT !.failures = @ + 1,
                  !.banned_until_unix = IF entry.failures + 1 >= BAN_FAILURES
                                        THEN clock + BAN_SECS ELSE @]

\* an established outbound connection: its outgoing channel and its sender
ConnTask(addr) == [addr |-> addr, state |-> "established", queue |-> <<>>, sender |-> "running"]

\* the per-target task of a broadcast: rate check, then try_send on the
\* connection's channel; the envelope is the seq-th addressed to the peer
FanOutSend ==
    \E p \in DOMAIN connections :
        LET t == connections[p]
            seq == hist.addressed[p] + 1
            rl == IF p \in DOMAIN peer_store THEN rate_limit(peer_store[p], instant)
                  ELSE [allow |-> TRUE]
            store1 == IF p \in DOMAIN peer_store THEN Put(peer_store, p, rl.entry)
                      ELSE peer_store
            queued == rl.allow /\ Len(tasks[t].queue) < MaxQueue
        IN  /\ hist.addressed[p] <= MAX_PER_WINDOW
            /\ hist' = [hist EXCEPT !.addressed[p] = seq]
            /\ tasks' = IF queued THEN [tasks EXCEPT ![t].queue = Append(@, seq)] ELSE tasks
            /\ peer_store' = IF rl.allow /\ ~queued /\ p \in DOMAIN peer_store
                             THEN Put(store1, p, mark_failure(store1[p], instant))
                             ELSE store1
            /\ last' = [op |-> "fanout_send", peer |-> p, seq |-> seq,
                        rate_dropped |-> ~rl.allow, at |-> instant]
            /\ UNCHANGED <<instant, dedupe, inbound_rx, forwarded, connections, manager>>
            /\ UNCHANGED <<clockVars, kvVars, sqlVars, writerVars, bftVars, extVars, arrival>>

\* the sender task of a connection takes the next envelope of its channel:
\* rate check, then sink.send, whose failure ends the sender
SenderRecv ==
    \E t \in DOMAIN tasks, send_ok \in BOOLEAN :
        LET p == tasks[t].addr
            seq == Head(tasks[t].queue)
            rl == IF p \in DOMAIN peer_store THEN rate_limit(peer_store[p], instant)
                  ELSE [allow |-> TRUE]
        IN  /\ tasks[t].state = "established"
            /\ tasks[t].sender = "running"
            /\ tasks[t].queue # <<>>
            /\ ~rl.allow => send_ok
            /\ peer_store' = IF p \in DOMAIN peer_store THEN Put(peer_store, p, rl.entry)
                             ELSE peer_store
            /\ tasks' = [tasks EXCEPT ![t].queue = Tail(@),
                                      ![t].sender = IF send_ok THEN @ ELSE "exited"]
            /\ hist' = IF rl.allow /\ send_ok
                       THEN [hist EXCEPT !.sent[p] = @ \cup {seq}] ELSE hist
            /\ last' = [op |-> "sender", peer |-> p, seq |-> seq,
                        rate_dropped |-> ~rl.allow, at |-> instant]
            /\ UNCHANGED <<instant, dedupe, inbound_rx, forwarded, connections, manager>>
            /\ UNCHANGED <<clockVars, kvVars, sqlVars, writerVars, bftVars, extVars, arrival>>

\* RateStep seconds pass
TickUnix ==
    /\ instant + RateStep <= MaxUnix
    /\ instant' = instant + RateStep
    /\ last' = [op |-> "tick"]
    /\ UNCHANGED <<dedupe, inbound_rx, forwarded, peerVars>>
    /\ UNCHANGED <<clockVars, kvVars, sqlVars, writerVars, bftVars, extVars, arrival>>

\* every peer was entered at second 0; the first has an established
\* connection
InitRate ==
    /\ InitQuiet
    /\ instant = 0
    /\ dedupe = Empty
    /\ inbound_rx = <<>>
    /\ forwarded = <<>>
    /\ peer_store = [p \in Peers |-> PeerEntry(p, 0)]
    /\ connections = [p \in {1} |-> p]
    /\ tasks = [p \in {1} |-> ConnTask(p)]
    /\ manager = [pc |-> "idle"]
    /\ hist = [addressed |-> [p \in Peers |-> 0], sent |-> [p \in Peers |-> {}]]
    /\ last = [op |-> "start"]

NextRate == FanOutSend \/ SenderRecv \/ TickUnix

SpecRate == InitRate /\ [][NextRate]_vars

\* C22: in the window that starts when the peer is entered, an envelope is
\* refused by the rate limit only if MAX_PER_WINDOW envelopes were addressed
\* to the peer before it.
C22_FirstAdmitted ==
    (/\ last.op \in {"fanout_send", "sender"}
     /\ last.rate_dropped
     /\ last.at < WINDOW_SECS) => last.seq > MAX_PER_WINDOW

(***************************************************************************)
(* network.rs: the connection manager, the outbound connection tasks and   *)
(* the changes of the peer list.  The manager clones the peer list, visits *)
(* the clone entry by entry and takes the lock of the connections map for  *)
(* each entry, so the tasks run between its steps.                         *)
(***************************************************************************)
\* current_unix() at the instant of the network clock
current_unix == UnixAtStart + instant

\* prune_peer_list: entries not seen for PEER_TTL_SECS with PRUNE_FAILURES
\* failures or more are removed; if more than MAX_PEERS are left, the list
\* is sorted by last-seen, latest first (a stable sort: entries seen at the
\* same second keep their order), and cut to MAX_PEERS
prune_peer_list(store, clock) ==
    LET cutoff == IF clock > PEER_TTL_SECS THEN clock - PEER_TTL_SECS ELSE 0
        seen(e) == IF e.last_seen_unix = NoUnix THEN 0 ELSE e.last_seen_unix
        kept == { a \in DOMAIN store :
                    seen(store[a]) >= cutoff \/ store[a].failures < PRUNE_FAILURES }
        ahead(a) == { b \in kept : \/ seen(store[b]) > seen(store[a])
                                   \/ seen(store[b]) = seen(store[a]) /\ b < a }
        first == IF Cardinality(kept) > MAX_PEERS
                 THEN { a \in kept : Cardinality(ahead(a)) < MAX_PEERS }
                 ELSE kept
    IN  [a \in first |-> store[a]]

\* for p in list { if !store.iter().any(|e| e.addr == p) { store.push(PeerEntry::new(p)) } }
\* if changed { prune_peer_list(&mut store) }
merge_peers(store, addrs, clock) ==
    LET merged == [a \in DOMAIN store \cup addrs |->
                     IF a \in DOMAIN store THEN store[a] ELSE PeerEntry(a, clock)]
    IN  IF addrs \subseteq DOMAIN store THEN store ELSE prune_peer_list(merged, clock)

\* if let Some(banned_until) = p.banned_until_unix { if banned_until > current_unix() { continue; } }
IsBanned(entry, clock) == entry.banned_until_unix # NoUnix /\ entry.banned_until_unix > clock

\* the addresses of a peer list in the order of the Vec
RECURSIVE AddrSeq(_)
AddrSeq(addrs) ==
    IF addrs = {} THEN <<>>
    ELSE LET a == CHOOSE x \in addrs : \A y \in addrs : x <= y
         IN  <<a>> \o AddrSeq(addrs \ {a})

\* the manager starts a pass: let peers = peer_store.lock().await.clone()
ManagerSnapshot ==
    /\ manager.pc = "idle"
    /\ manager' = [manager EXCEPT !.pc = "iterating", !.peers = peer_store,
                                  !.todo = AddrSeq(DOMAIN peer_store)]
    /\ last' = [op |-> "manager_snapshot"]
    /\ UNCHANGED <<instant, dedupe, inbound_rx, forwarded, peer_store, connections, tasks, hist>>
    /\ UNCHANGED <<clockVars, kvVars, sqlVars, writerVars, bftVars, extVars, arrival>>

\* the body of `for p in peers.iter()` for one entry of the clone: a banned
\* or connected peer is skipped, otherwise the mapping is inserted and the
\* connection task spawned
ManagerVisit ==
    LET p == Head(manager.todo)
        skip == IsBanned(manager.peers[p], current_unix) \/ p \in DOMAIN connections
        id == manager.spawned + 1
    IN  /\ manager.pc = "iterating"
        /\ manager.todo # <<>>
        /\ ~skip => manager.spawned < MaxTasks
        /\ manager' = [manager EXCEPT !.todo = Tail(@),
                                      !.spawned = IF skip THEN @ ELSE id]
        /\ connections' = IF skip THEN connections ELSE Put(connections, p, id)
        /\ tasks' = IF skip THEN tasks
                    ELSE Put(tasks, id, [addr |-> p, state |-> "connecting",
                                         queue |-> <<>>, sender |-> "none"])
        /\ last' = [op |-> "manager_visit", peer |-> p, spawned |-> ~skip]
        /\ UNCHANGED <<instant, dedupe, inbound_rx, forwarded, peer_store, hist>>
        /\ UNCHANGED <<clockVars, kvVars, sqlVars, writerVars, bftVars, extVars, arrival>>

\* the end of a pass: conns.retain(|k, _| allowed.contains(k))
ManagerCleanup ==
    /\ manager.pc = "iterating"
    /\ manager.todo = <<>>
    /\ manager' = [manager EXCEPT !.pc = "idle"]
    /\ connections' = [a \in DOMAIN connections \cap DOMAIN peer_store |-> connections[a]]
    /\ last' = [op |-> "manager_cleanup"]
    /\ UNCHANGED <<instant, dedupe, inbound_rx, forwarded, peer_store, tasks, hist>>
    /\ UNCHANGED <<clockVars, kvVars, sqlVars, writerVars, bftVars, extVars, arrival>>

\* a connection task: TcpStream::connect or the handshake fails
ConnectFail ==
    \E t \in DOMAIN tasks :
        LET p == tasks[t].addr
        IN  /\ tasks[t].state = "connecting"
            /\ peer_store' = IF p \in DOMAIN peer_store
                             THEN Put(peer_store, p, mark_failure(peer_store[p], current_unix))
                             ELSE peer_store
            /\ tasks' = [tasks EXCEPT ![t].state = "ending"]
            /\ last' = [op |-> "connect_failed", peer |-> p]
            /\ UNCHANGED <<instant, dedupe, inbound_rx, forwarded, connections, manager, hist>>
            /\ UNCHANGED <<clockVars, kvVars, sqlVars, writerVars, bftVars, extVars, arrival>>

\* a connection task: connected and shaken hands; the peers it was told of
\* are merged, the failure count is reset and the sender task spawned
ConnectOk ==
    \E t \in DOMAIN tasks, discovered \in SUBSET Peers :
        LET p == tasks[t].addr
            store1 == merge_peers(peer_store, discovered, current_unix)
        IN  /\ tasks[t].state = "connecting"
            /\ peer_store' = IF p \in DOMAIN store1
                             THEN Put(store1, p, [store1[p] EXCEPT !.failures = 0,
                                                    !.last_seen_unix = current_unix])
                             ELSE store1
            /\ tasks' = [tasks EXCEPT ![t].state = "established", ![t].sender = "running"]
            /\ last' = [op |-> "connected", peer |-> p]
            /\ UNCHANGED <<instant, dedupe, inbound_rx, forwarded, connections, manager, hist>>
            /\ UNCHANGED <<clockVars, kvVars, sqlVars, writerVars, bftVars, extVars, arrival>>

\* a connection task: the read loop ends (stream closed or read error) and
\* the sender is aborted
ConnectionClosed ==
    \E t \in DOMAIN tasks :
        /\ tasks[t].state = "established"
        /\ tasks' = [tasks EXCEPT ![t].state = "ending", ![t].sender = "exited"]
        /\ last' = [op |-> "closed", peer |-> tasks[t].addr]
        /\ UNCHANGED <<instant, dedupe, inbound_rx, forwarded, peer_store, connections, manager, hist>>
        /\ UNCHANGED <<clockVars, kvVars, sqlVars, writerVars, bftVars, extVars, arrival>>

\* the last statement of a connection task: connections.remove(&addr)
TaskEnd ==
    \E t \in DOMAIN tasks :
        /\ tasks[t].state = "ending"
        /\ connections' = [a \in DOMAIN connections \ {tasks[t].addr} |-> connections[a]]
        /\ tasks' = [u \in DOMAIN tasks \ {t} |-> tasks[u]]
        /\ last' = [op |-> "task_end", peer |-> tasks[t].addr]
        /\ UNCHANGED <<instant, dedupe, inbound_rx, forwarded, peer_store, manager, hist>>
        /\ UNCHANGED <<clockVars, kvVars, sqlVars, writerVars, bftVars, extVars, arrival>>

\* a peer_list envelope read on some connection
PeerListReceived ==
    \E announced \in SUBSET Peers :
        /\ announced # {}
        /\ peer_store' = merge_peers(peer_store, announced, current_unix)
        /\ last' = [op |-> "peer_list", peers |-> announced]
        /\ UNCHANGED <<instant, dedupe, inbound_rx, forwarded, connections, tasks, manager, hist>>
        /\ UNCHANGED <<clockVars, kvVars, sqlVars, writerVars, bftVars, extVars, arrival>>

\* the entries peers.json can hold for a peer that kept failing: the
\* failures counted so far, last seen when the node started or a week before
LoadedEntries(addr) ==
    { [PeerEntry(addr, seen) EXCEPT !.failures = f] :
        f \in {BAN_FAILURES - 1, PRUNE_FAILURES}, seen \in {0, UnixAtStart} }

\* start_network: the peer list loaded from peers.json, no connection yet
InitConn ==
    /\ InitQuiet
    /\ instant = 0
    /\ dedupe = Empty
    /\ inbound_rx = <<>>
    /\ forwarded = <<>>
    /\ \E e \in LoadedEntries(1) : peer_store = [a \in {1} |-> e]
    /\ connections = Empty
    /\ tasks = Empty
    /\ manager = [pc |-> "idle", peers |-> Empty, todo |-> <<>>, spawned |-> 0]
    /\ hist = Empty
    /\ last = [op |-> "start"]

NextConn ==
    \/ ManagerSnapshot
    \/ ManagerVisit
    \/ ManagerCleanup
    \/ ConnectFail
    \/ ConnectOk
    \/ ConnectionClosed
    \/ TaskEnd
    \/ PeerListReceived
    \/ TickNet

SpecConn == InitConn /\ [][NextConn]_vars

LiveTasks(addr) ==
    { t \in DOMAIN tasks : tasks[t].addr = addr /\ tasks[t].state \in {"connecting", "established"} }

AcceptedConn(addr) == [addr |-> addr, state |-> "accepted", queue |-> <<>>, sender |-> "none"]

\* a read loop takes a ping frame: the dedupe check, then the branch of the
\* loop: the opened connection queues a pong with try_send, the accepted
\* connection does nothing
PingFromPeer ==
    \E t \in DOMAIN tasks :
        LET p == tasks[t].addr
            k == hist.pinged[p] + 1
            msgid == message_id_from_envelope(Envelope("ping", instant))
            dropped == IsDuplicate(dedupe, msgid, instant)
            queued == /\ ~dropped
                      /\ tasks[t].state = "established"
                      /\ Len(tasks[t].queue) < MaxQueue
        IN  /\ tasks[t].state \in {"established", "accepted"}
            /\ k <= MaxPings
            /\ hist' = [hist EXCEPT !.pinged[p] = k]
            /\ dedupe' = IF dropped THEN dedupe ELSE Remember(dedupe, msgid, instant)
            /\ tasks' = IF queued THEN [tasks EXCEPT ![t].queue = Append(@, k)] ELSE tasks
            /\ last' = [op |-> "ping", peer |-> p, seq |-> k, dropped |-> dropped,
                        queued |-> queued]
            /\ UNCHANGED <<instant, inbound_rx, forwarded, peer_store, connections, manager>>
            /\ UNCHANGED <<clockVars, kvVars, sqlVars, writerVars, bftVars, extVars, arrival>>

\* a read loop takes a pong frame: the dedupe check, then the branch of the
\* loop: the opened connection resets the peer's failures and refreshes its
\* last-seen, the accepted connection has no branch for pong
PongFromPeer ==
    \E t \in DOMAIN tasks :
        LET p == tasks[t].addr
            k == hist.ponged[p] + 1
            msgid == message_id_from_envelope(Envelope("pong", instant))
            dropped == IsDuplicate(dedupe, msgid, instant)
            handled == ~dropped /\ tasks[t].state = "established" /\ p \in DOMAIN peer_store
        IN  /\ tasks[t].state \in {"established", "accepted"}
            /\ k <= MaxPings
            /\ hist' = [hist EXCEPT !.ponged[p] = k]
            /\ dedupe' = IF dropped THEN dedupe ELSE Remember(dedupe, msgid, instant)
            /\ peer_store' = IF handled
                             THEN Put(peer_store, p, [peer_store[p] EXCEPT !.failures = 0,
                                                        !.last_seen_unix = instant])
                             ELSE peer_store
            /\ last' = [op |-> "pong", peer |-> p, seq |-> k, dropped |-> dropped,
                        queued |-> FALSE]
            /\ UNCHANGED <<instant, inbound_rx, forwarded, connections, tasks, manager>>
            /\ UNCHANGED <<clockVars, kvVars, sqlVars, writerVars, bftVars, extVars, arrival>>

\* both peers are known with one failure on record; connection 1 is opened,
\* connection 2 accepted
InitKeepalive ==
    /\ InitQuiet
    /\ instant = 0
    /\ dedupe = Empty
    /\ inbound_rx = <<>>
    /\ forwarded = <<>>
    /\ peer_store = [p \in Peers |-> [PeerEntry(p, 0) EXCEPT !.failures = 1]]
    /\ connections = [p \in {1} |-> p]
    /\ tasks = [p \in Peers |-> IF p = 1 THEN ConnTask(p) ELSE AcceptedConn(p)]
    /\ manager = [pc |-> "idle"]
    /\ hist = [addressed |-> [p \in Peers |-> 0], sent |-> [p \in Peers |-> {}],
               pinged |-> [p \in Peers |-> 0], ponged |-> [p \in Peers |-> 0]]
    /\ last = [op |-> "start"]

NextKeepalive == PingFromPeer \/ PongFromPeer \/ SenderRecv \/ TickNet

\* the runtime keeps running a sender task that has an envelope to take
SpecKeepalive == InitKeepalive /\ [][NextKeepalive]_vars /\ WF_vars(SenderRecv)

\* C25: the first ping received on a connection is answered with a pong on
\* that connection, unless the connection's sender found it broken.
C25_PingAnswered ==
    \A p \in Peers :
        [](hist.pinged[p] >= 1 => <>(1 \in hist.sent[p] \/ tasks[p].sender = "exited"))

(***************************************************************************)
(* Re-delivery of votes to record_signature (bft/state.rs).                *)
(***************************************************************************)
\* the vote (validator, round, block_hash) was processed before: it is the
\* recorded first hash, or a conflicting one whose evidence row is stored
AlreadyProcessed(validator, round, block_hash) ==
    /\ <<validator, round>> \in DOMAIN seen_signatures
    /\ \/ seen_signatures[<<validator, round>>] = block_hash
       \/ \E i \in DOMAIN evidence :
            /\ evidence[i].validator = validator
            /\ evidence[i].round = round
            /\ evidence[i].conflicting_block = block_hash

\* C28: delivering again a vote that was already processed, the recorded
\* one or a conflicting one already reported, changes neither the recorded
\* first hash nor the evidence store.
C28_RedeliveryIdempotent ==
    [][(/\ last'.op = "record_signature"
        /\ AlreadyProcessed(last'.validator, last'.round, last'.block_hash)) =>
          /\ seen_signatures' = seen_signatures
          /\ evidence' = evidence]_vars

(***************************************************************************)
(* merkle.rs: MerkleTree.  A digest is a sequence of integers: the tx hash *)
(* k is <<k>>, and the SHA-256 digest of the concatenation of the digests  *)
(* d1 .. dn is <<0, n>> \o d1 \o .. \o dn, which no other input yields.    *)
(***************************************************************************)
RECURSIVE Concat(_)
Concat(ds) == IF ds = <<>> THEN <<>> ELSE Head(ds) \o Concat(Tail(ds))

\* Sha256::new(), update(..) for every part, finalize()
sha256(parts) == <<0, Len(parts)>> \o Concat(parts)

\* a tx hash, hex-decoded to 32 bytes
TxHash(k) == <<k>>

\* the body of `while nodes.last().unwrap().len() > 1`: pairs are hashed,
\* the last node of an odd level is paired with itself
NextLevel(prev) ==
    [j \in 1..((Len(prev) + 1) \div 2) |->
        LET left == prev[2 * j - 1]
            right == IF 2 * j <= Len(prev) THEN prev[2 * j] ELSE prev[2 * j - 1]
        IN  sha256(<<left, right>>)]

RECURSIVE BuildLevels(_)
BuildLevels(nodes) ==
    IF Len(nodes[Len(nodes)]) > 1
    THEN BuildLevels(Append(nodes, NextLevel(nodes[Len(nodes)])))
    ELSE nodes

\* MerkleTree::from_hashes
from_hashes(hashes) == BuildLevels(<<hashes>>)

\* MerkleTree::root_hex: root_level[0] of the last level, which panics when
\* that level is empty
root_hex(tree) ==
    IF Len(tree) > 0
    THEN IF Len(tree[Len(tree)]) > 0
         THEN [panicked |-> FALSE, root |-> tree[Len(tree)][1]]
         ELSE [panicked |-> TRUE, root |-> <<>>]
    ELSE [panicked |-> FALSE, root |-> <<0>>]

\* the step of proof_for_index at level l with the 0-based position idx
ProofStep_AlwaysLeft(level, idx) ==
    LET sibling_index == IF idx % 2 = 0 THEN idx + 1 ELSE idx - 1
        sibling == IF sibling_index < Len(level) THEN level[sibling_index + 1]
                   ELSE level[idx + 1]
    IN  [sibling |-> sibling, is_left |-> TRUE]

ProofStep(level, idx) ==
    LET sibling_index == IF idx % 2 = 0 THEN idx + 1 ELSE idx - 1
        sibling == IF sibling_index < Len(level) THEN level[sibling_index + 1]
                   ELSE level[idx + 1]
    IN  [sibling |-> sibling, is_left |-> idx % 2 = 0]

RECURSIVE ProofLoop(_, _, _)
ProofLoop(tree, l, idx) ==
    IF l > Len(tree) \/ Len(tree[l]) = 1 THEN <<>>
    ELSE <<ProofStep(tree[l], idx)>> \o ProofLoop(tree, l + 1, idx \div 2)

\* MerkleTree::proof_for_index
proof_for_index(tree, index) == ProofLoop(tree, 1, index)

\* verify(root, proof, hash): the proof folded over the hash, the current
\* digest on the left where is_left says so
RECURSIVE FoldProof(_, _)
FoldProof(h, proof) ==
    IF proof = <<>> THEN h
    ELSE FoldProof(IF Head(proof).is_left THEN sha256(<<h, Head(proof).sibling>>)
                   ELSE sha256(<<Head(proof).sibling, h>>),
                   Tail(proof))

\* the lists of tx hashes of up to MaxLeaves entries
RECURSIVE HashLists(_)
HashLists(n) ==
    IF n = 0 THEN {<<>>}
    ELSE LET shorter == HashLists(n - 1)
         IN  shorter \cup { Append(s, TxHash(k)) : s \in { x \in shorter : Len(x) = n - 1 },
                                                  k \in 1..MaxHash }

\* the digests an altered hash or sibling is replaced by
Replacements ==
    { TxHash(k) : k \in 1..MaxHash + 1 }
        \cup { sha256(<<TxHash(a), TxHash(b)>>) : a \in 1..MaxHash, b \in 1..MaxHash }

\* get_proof_by_tx builds the tree of the block's tx hashes, the proof of
\* the requested index and the root; the caller folds the proof as it was
\* returned, and with position `at` of (hash, sibling 1, sibling 2, ..)
\* replaced by `by`
MerkleProve ==
    /\ last.op = "to_merkle"
    /\ LET tree == from_hashes(last.hashes)
           r == root_hex(tree)
           proof == IF last.hashes = <<>> THEN <<>> ELSE proof_for_index(tree, last.index)
           hash == IF last.hashes = <<>> THEN <<>> ELSE last.hashes[last.index + 1]
           altered == last.at <= Len(proof)
           /\ (IF last.at = 0 THEN hash ELSE proof[last.at].sibling) # last.by
           hash2 == IF last.at = 0 THEN last.by ELSE hash
           proof2 == [i \in 1..Len(proof) |->
                        IF i = last.at THEN [proof[i] EXCEPT !.sibling = last.by]
                        ELSE proof[i]]
       IN  last' = [op |-> "merkle", hashes |-> last.hashes, index |-> last.index,
                    panicked |-> r.panicked, root |-> r.root, proof |-> proof,
                    folded |-> FoldProof(hash, proof),
                    altered |-> altered, at |-> last.at,
                    folded_altered |-> FoldProof(hash2, proof2)]
    /\ UNCHANGED <<clockVars, kvVars, sqlVars, writerVars, bftVars, extVars, netVars, arrival>>

InitMerkle ==
    /\ InitQuiet
    /\ InitNet
    /\ \E hashes \in HashLists(MaxLeaves), index \in 0..(MaxLeaves - 1),
          at \in 0..((MaxLeaves + 1) \div 2), by \in Replacements :
         /\ index < Len(hashes) \/ (hashes = <<>> /\ index = 0)
         /\ last = [op |-> "to_merkle", hashes |-> hashes, index |-> index,
                    at |-> at, by |-> by]

NextMerkle == MerkleProve

SpecMerkle == InitMerkle /\ [][NextMerkle]_vars

\* C29: for a non-empty list of tx hashes and an index in it, the proof of
\* the index folded over the hash at the index gives the root, and the fold
\* with the hash or one sibling replaced by a different digest gives a
\* digest other than the root.
C29_ProofRoundTrip ==
    (last.op = "merkle" /\ last.hashes # <<>>) =>
        /\ ~last.panicked
        /\ last.folded = last.root
        /\ last.altered => last.folded_altered # last.root

\* C29: witness: the third of three hashes, whose sibling on the first level
\* is its own copy, with the sibling of the second level replaced
C29_Witness ==
    /\ last.op = "merkle"
    /\ Len(last.hashes) = 3
    /\ last.index = 2
    /\ Len(last.proof) = 2
    /\ last.proof[1].sibling = last.hashes[3]
    /\ last.altered
    /\ last.at = 2
    /\ last.folded = last.root

\* C30: the root of the tree built from the empty list of hashes is the
\* SHA-256 digest of the empty string.
C30_EmptyRoot ==
    (last.op = "merkle" /\ last.hashes = <<>>) =>
        /\ ~last.panicked
        /\ last.root = sha256(<<>>)

(***************************************************************************)
(* network/handshake.rs: handle_incoming_connection on one accepted        *)
(* connection.  The connector sends what it likes, line by line; the       *)
(* accepter reads the hello, sends the challenge, reads the signature,     *)
(* verifies it and only then spawns the loop that forwards transactions.   *)
(***************************************************************************)
Nonces == {"n1", "n2"}

\* a line of the connector: what it parses as, and the strings it carries
Line(kind, public_key, signature) == [kind |-> kind, public_key |-> public_key, signature |-> signature]
Lines ==
    { Line(k, EmptyString, EmptySig) : k \in {"eof", "empty", "junk", "tx"} }
        \cup { Line("hello", pk, EmptySig) :
                 pk \in { PubKey(k) : k \in Keys } \cup {EmptyString} }
        \cup { Line("signature", EmptyString, s) :
                 s \in { SigBy(k, <<n>>) : k \in Keys, n \in Nonces }
                         \cup {GarbageSig, NotHexSig} \cup { ShortSig(k, <<"n1">>) : k \in {"kA"} } }

\* steps 3 and 4, broken: the signature is verified under the key of the
\* hello, whatever it was made over
verify_challenge_AnyNonce(public_key, nonce_hex, signature) ==
    /\ signature.hex
    /\ signature.len = SIG_LEN
    /\ public_key.hex
    /\ public_key.len = PK_LEN
    /\ public_key.key \in Keys
    /\ signature.by = public_key.key

\* steps 3 and 4 of handle_incoming_connection
verify_challenge(public_key, nonce_hex, signature) ==
    /\ signature.hex                      \* hex::decode(sig_msg.signature.trim())
    /\ signature.len = SIG_LEN            \* Signature::from_bytes
    /\ public_key.hex                     \* hex::decode(hello.public_key.trim())
    /\ public_key.len = PK_LEN            \* PublicKey::from_bytes
    /\ public_key.key \in Keys
    /\ signature.by = public_key.key      \* pk.verify(nonce_hex.as_bytes(), &signature)
    /\ signature.over = <<nonce_hex>>

\* the accepted connection before its first line
IncomingConn(addr) ==
    [addr |-> addr, state |-> "await_hello", queue |-> <<>>, sender |-> "none",
     public_key |-> EmptyString, nonce_hex |-> "none"]

\* step 1 and 2: the hello line is read and parsed, the challenge with a
\* fresh nonce is written; any error returns and drops the stream
ReadHello ==
    \E line \in Lines, nonce \in Nonces, write_ok \in BOOLEAN :
        LET ok == line.kind = "hello" /\ write_ok
        IN  /\ tasks[1].state = "await_hello"
            /\ line.kind # "hello" => write_ok
            /\ tasks' = [tasks EXCEPT ![1].state = IF ok THEN "await_signature" ELSE "closed",
                                      ![1].public_key = IF ok THEN line.public_key ELSE @,
                                      ![1].nonce_hex = IF ok THEN nonce ELSE @]
            /\ hist' = [hist EXCEPT !.lines = Append(@, line),
                                    !.challenges = IF line.kind = "hello"
                                                   THEN Append(@, nonce) ELSE @]
            /\ last' = [op |-> "read_hello", ok |-> ok]
            /\ UNCHANGED <<instant, dedupe, inbound_rx, forwarded, peer_store, connections, manager>>
            /\ UNCHANGED <<clockVars, kvVars, sqlVars, writerVars, bftVars, extVars, arrival>>

\* step 3 and 4: the signature line is read, parsed and verified; on success
\* the read loop is spawned, any error returns and drops the stream
ReadSignature ==
    \E line \in Lines :
        LET ok == /\ line.kind = "signature"
                  /\ verify_challenge(tasks[1].public_key, tasks[1].nonce_hex, line.signature)
        IN  /\ tasks[1].state = "await_signature"
            /\ tasks' = [tasks EXCEPT ![1].state = IF ok THEN "authenticated" ELSE "closed"]
            /\ hist' = [hist EXCEPT !.lines = Append(@, line)]
            /\ last' = [op |-> "read_signature", ok |-> ok]
            /\ UNCHANGED <<instant, dedupe, inbound_rx, forwarded, peer_store, connections, manager>>
            /\ UNCHANGED <<clockVars, kvVars, sqlVars, writerVars, bftVars, extVars, arrival>>

\* the spawned read loop takes a line: EOF ends it, an empty line is
\* skipped, a Transaction is sent to the inbound channel, anything else is
\* logged
ReadLoopLine ==
    \E line \in Lines :
        /\ tasks[1].state = "authenticated"
        /\ Len(hist.lines) < MaxLines
        /\ tasks' = [tasks EXCEPT ![1].state = IF line.kind = "eof" THEN "closed" ELSE @]
        /\ hist' = [hist EXCEPT !.lines = Append(@, line)]
        /\ inbound_rx' = IF line.kind = "tx"
                         THEN Append(inbound_rx, [line |-> Len(hist.lines) + 1])
                         ELSE inbound_rx
        /\ last' = [op |-> "read_line", ok |-> line.kind = "tx"]
        /\ UNCHANGED <<instant, dedupe, forwarded, peer_store, connections, manager>>
        /\ UNCHANGED <<clockVars, kvVars, sqlVars, writerVars, bftVars, extVars, arrival>>

InitHandshake ==
    /\ InitQuiet
    /\ instant = 0
    /\ dedupe = Empty
    /\ inbound_rx = <<>>
    /\ forwarded = <<>>
    /\ peer_store = Empty
    /\ connections = Empty
    /\ tasks = [t \in {1} |-> IncomingConn(1)]
    /\ manager = [pc |-> "idle"]
    /\ hist = [lines |-> <<>>, challenges |-> <<>>]
    /\ last = [op |-> "start"]

NextHandshake == ReadHello \/ ReadSignature \/ ReadLoopLine

SpecHandshake == InitHandshake /\ [][NextHandshake]_vars

\* the connector's first line was a hello, one challenge was sent, and its
\* second line was a signature over that challenge's nonce by the key of
\* the hello
HandshakeDone ==
    /\ Len(hist.lines) >= 2
    /\ Len(hist.challenges) = 1
    /\ hist.lines[1].kind = "hello"
    /\ hist.lines[2].kind = "signature"
    /\ hist.lines[1].public_key.key \in Keys
    /\ hist.lines[2].signature.len = SIG_LEN
    /\ hist.lines[2].signature.by = hist.lines[1].public_key.key
    /\ hist.lines[2].signature.over = <<hist.challenges[1]>>

\* C26: a transaction is in the inbound channel only if hello, challenge and
\* a signature over the challenge under the hello's key came before it on
\* the connection; after two lines without that the connection is closed
\* and the inbound channel is empty.
C26_ForwardAfterHandshake ==
    /\ inbound_rx # <<>> =>
         /\ HandshakeDone
         /\ \A i \in DOMAIN inbound_rx : inbound_rx[i].line > 2
    /\ (Len(hist.lines) >= 2 /\ ~HandshakeDone) =>
         /\ tasks[1].state = "closed"
         /\ inbound_rx = <<>>

\* C26: witness: a handshake that succeeded and a transaction forwarded
\* after it
C26_Witness ==
    /\ last.op = "read_line"
    /\ last.ok
    /\ HandshakeDone
    /\ Len(inbound_rx) = 1

(***************************************************************************)
(* network.rs: shutdown.  The Ctrl+C handler sends on the shutdown         *)
(* channel.  The pruner, the listener, the connection manager and the      *)
(* broadcaster hold a receiver in an arm of their select! and break.  A    *)
(* connection task looks at the channel once, with try_recv before it      *)
(* connects (its error arm is ConnectFail); its read loop, its sender and  *)
(* the read loop of an accepted connection hold no receiver and end when   *)
(* the peer closes the connection or a read fails.                         *)
(***************************************************************************)
\* tokio::signal::ctrl_c() returns: tx.send(())
ShutdownSignal ==
    /\ ~manager.shutdown
    /\ manager' = [manager EXCEPT !.shutdown = TRUE]
    /\ last' = [op |-> "ctrl_c"]
    /\ UNCHANGED <<instant, dedupe, inbound_rx, forwarded, peer_store, connections, tasks, hist>>
    /\ UNCHANGED <<clockVars, kvVars, sqlVars, writerVars, bftVars, extVars, arrival>>

\* the dedupe prune task: _ = shutdown_rx.recv() => break
PrunerExit ==
    /\ manager.shutdown
    /\ manager.pruner = "running"
    /\ manager' = [manager EXCEPT !.pruner = "exited"]
    /\ last' = [op |-> "pruner_exit"]
    /\ UNCHANGED <<instant, dedupe, inbound_rx, forwarded, peer_store, connections, tasks, hist>>
    /\ UNCHANGED <<clockVars, kvVars, sqlVars, writerVars, bftVars, extVars, arrival>>

\* the listener: _ = shutdown_rx_for_listener.recv() => break
ListenerExit ==
    /\ manager.shutdown
    /\ manager.listener = "running"
    /\ manager' = [manager EXCEPT !.listener = "exited"]
    /\ last' = [op |-> "listener_exit"]
    /\ UNCHANGED <<instant, dedupe, inbound_rx, forwarded, peer_store, connections, tasks, hist>>
    /\ UNCHANGED <<clockVars, kvVars, sqlVars, writerVars, bftVars, extVars, arrival>>

\* the broadcaster: _ = shutdown_rx.recv() => break
BroadcasterExit ==
    /\ manager.shutdown
    /\ manager.broadcaster = "running"
    /\ manager' = [manager EXCEPT !.broadcaster = "exited"]
    /\ last' = [op |-> "broadcaster_exit"]
    /\ UNCHANGED <<instant, dedupe, inbound_rx, forwarded, peer_store, connections, tasks, hist>>
    /\ UNCHANGED <<clockVars, kvVars, sqlVars, writerVars, bftVars, extVars, arrival>>

\* the connection manager, between two passes: _ = shutdown_rx.recv() => break
ManagerExit ==
    /\ manager.shutdown
    /\ manager.pc = "idle"
    /\ manager' = [manager EXCEPT !.pc = "exited"]
    /\ last' = [op |-> "manager_exit"]
    /\ UNCHANGED <<instant, dedupe, inbound_rx, forwarded, peer_store, connections, tasks, hist>>
    /\ UNCHANGED <<clockVars, kvVars, sqlVars, writerVars, bftVars, extVars, arrival>>

\* the read loop of an accepted connection ends: the peer closed the
\* connection or a read failed
AcceptedClosed ==
    \E t \in DOMAIN tasks :
        /\ tasks[t].state = "accepted"
        /\ tasks' = [u \in DOMAIN tasks \ {t} |-> tasks[u]]
        /\ last' = [op |-> "accepted_closed", peer |-> tasks[t].addr]
        /\ UNCHANGED <<instant, dedupe, inbound_rx, forwarded, peer_store, connections, manager, hist>>
        /\ UNCHANGED <<clockVars, kvVars, sqlVars, writerVars, bftVars, extVars, arrival>>

\* a connection attempt fails or an established connection is closed by the
\* peer, as long as the manager can still answer with a new attempt
PeerFails == manager.spawned < MaxTasks /\ (ConnectFail \/ ConnectionClosed)

\* peer 1 is known, peer 2 has connected to the listener; every loop runs
InitShutdown ==
    /\ InitQuiet
    /\ instant = 0
    /\ dedupe = Empty
    /\ inbound_rx = <<>>
    /\ forwarded = <<>>
    /\ peer_store = [p \in {1} |-> PeerEntry(p, UnixAtStart)]
    /\ connections = Empty
    /\ tasks = [t \in {0} |-> AcceptedConn(2)]
    /\ manager = [pc |-> "idle", peers |-> Empty, todo |-> <<>>, spawned |-> 0,
                  shutdown |-> FALSE, pruner |-> "running", listener |-> "running",
                  broadcaster |-> "running"]
    /\ hist = Empty
    /\ last = [op |-> "start"]

NextShutdown ==
    \/ ShutdownSignal
    \/ PrunerExit
    \/ ListenerExit
    \/ BroadcasterExit
    \/ ManagerExit
    \/ ManagerSnapshot
    \/ ManagerVisit
    \/ ManagerCleanup
    \/ ConnectOk
    \/ PeerFails
    \/ TaskEnd
    \/ AcceptedClosed

\* the runtime keeps running every task that can take a step, a select!
\* whose shutdown arm is ready again and again takes it, and a connection
\* attempt ends; what the peers do is up to them
SpecShutdown ==
    /\ InitShutdown
    /\ [][NextShutdown]_vars
    /\ WF_vars(PrunerExit)
    /\ WF_vars(ListenerExit)
    /\ WF_vars(BroadcasterExit)
    /\ SF_vars(ManagerExit)
    /\ WF_vars(ManagerVisit)
    /\ WF_vars(ManagerCleanup)
    /\ WF_vars(ConnectOk \/ ConnectFail)
    /\ WF_vars(TaskEnd)

\* every task start_network started has ended
AllExited ==
    /\ manager.pc = "exited"
    /\ manager.pruner = "exited"
    /\ manager.listener = "exited"
    /\ manager.broadcaster = "exited"
    /\ DOMAIN tasks = {}

\* C27: after the shutdown signal every task started by start_network
\* eventually exits.
C27_AllTasksExit == manager.shutdown ~> AllExited

(***************************************************************************)
(* api.rs: RateLimiter and rate_limit_middleware.  The clock is `instant`, *)
(* in seconds; the router was started with max_requests = MaxRequests and  *)
(* the default window.                                                     *)
(***************************************************************************)
ClientIps == {"ip1", "ip2"}

\* RateLimiter::check_rate_limit
check_rate_limit(bkts, ip, clock) ==
    LET entry == IF ip \in DOMAIN bkts THEN bkts[ip] ELSE [count |-> 0, window_start |-> clock]
    IN  IF clock - entry.window_start > RATE_LIMIT_WINDOW_SECS
        THEN [allowed |-> TRUE, buckets |-> Put(bkts, ip, [count |-> 1, window_start |-> clock])]
        ELSE IF entry.count < MaxRequests
        THEN [allowed |-> TRUE, buckets |-> Put(bkts, ip, [entry EXCEPT !.count = @ + 1])]
        ELSE [allowed |-> FALSE, buckets |-> Put(bkts, ip, entry)]

\* rate_limit_middleware: a request to a protected route from `ip`
RateLimitedRequest ==
    \E ip \in ClientIps :
        LET r == check_rate_limit(buckets, ip, instant)
        IN  /\ Len(hist.calls) < MaxCalls
            /\ buckets' = r.buckets
            /\ hist' = [hist EXCEPT !.calls = Append(@, [ip |-> ip, at |-> instant,
                                                           allowed |-> r.allowed])]
            /\ last' = [op |-> "rate_limit", ip |-> ip, at |-> instant,
                        status |-> IF r.allowed THEN 200 ELSE 429]
            /\ UNCHANGED <<instant, dedupe, inbound_rx, forwarded, peer_store, connections,
                           tasks, manager, storage, locks>>
            /\ UNCHANGED <<clockVars, kvVars, sqlVars, writerVars, bftVars, arrival>>

InitLimiter ==
    /\ InitQuiet
    /\ instant = 0
    /\ dedupe = Empty
    /\ inbound_rx = <<>>
    /\ forwarded = <<>>
    /\ peer_store = Empty
    /\ connections = Empty
    /\ tasks = Empty
    /\ manager = [pc |-> "idle"]
    /\ hist = [calls |-> <<>>]
    /\ last = [op |-> "start"]

NextLimiter == RateLimitedRequest \/ TickUnix

SpecLimiter == InitLimiter /\ [][NextLimiter]_vars

\* the requests of `ip` admitted at a second t with from <= t < from + window
AdmittedIn(ip, from) ==
    { i \in DOMAIN hist.calls :
        /\ hist.calls[i].ip = ip
        /\ hist.calls[i].allowed
        /\ hist.calls[i].at >= from
        /\ hist.calls[i].at < from + RATE_LIMIT_WINDOW_SECS }

\* C31: for every client IP and every interval of the window's length, at
\* most max_requests requests of that IP were admitted in the interval.
C31_AtMostMaxPerInterval ==
    \A ip \in ClientIps : \A from \in 0..MaxUnix :
        Cardinality(AdmittedIn(ip, from)) <= MaxRequests

(***************************************************************************)
(* storage/: the Storage trait's block operations in both backends.        *)
(* RocksDB keeps block:height:<h> -> block, block:id:<id> -> height and    *)
(* state:latest_height; PostgreSQL keeps the rows of `blocks` by block_id. *)
(***************************************************************************)
\* storage::Block: id, height, and the tx list and signatures it carries
StorageBlock(block_id, block_height, content) ==
    [block_id |-> block_id, block_height |-> block_height,
     block_bytes |-> content, signature |-> content]

StorageBlocks ==
    { StorageBlock(i, h, c) : i \in 1..MaxBlockId, h \in 1..MaxHeight, c \in {"A", "B"} }

\* RocksDbStorage::save_block: three puts, each returning with `?` when it
\* fails; `puts` of them succeed
rocks_save_block(db, block, puts) ==
    LET db1 == IF puts >= 1
               THEN [db EXCEPT !.by_height = Put(@, block.block_height, block)] ELSE db
        db2 == IF puts >= 2
               THEN [db1 EXCEPT !.by_id = Put(@, block.block_id, block.block_height)] ELSE db1
    IN  IF puts >= 3 THEN [db2 EXCEPT !.latest_height = block.block_height] ELSE db2

\* RocksDbStorage::get_latest_height
rocks_get_latest_height(db) == IF db.latest_height = NoHeight THEN 0 ELSE db.latest_height

\* PostgresStorage::save_block: INSERT .. ON CONFLICT (block_id) DO NOTHING;
\* the statement can fail, and then nothing is stored
pg_save_block(rows, block, insert_ok) ==
    IF insert_ok /\ block.block_id \notin DOMAIN rows
    THEN Put(rows, block.block_id, block) ELSE rows

\* PostgresStorage::get_latest_height: COALESCE(MAX(block_height), 0)
pg_get_latest_height(rows) ==
    IF DOMAIN rows = {} THEN 0
    ELSE CHOOSE h \in { rows[i].block_height : i \in DOMAIN rows } :
            \A i \in DOMAIN rows : rows[i].block_height <= h

\* get_latest_height of a backend
get_latest_height(st, backend) ==
    IF backend = "rocks" THEN rocks_get_latest_height(st.rocks)
    ELSE pg_get_latest_height(st.pg)

\* Storage::save_block on the RocksDB backend (a node runs one
\* StorageMode: the other backend holds nothing)
RocksSaveBlock ==
    \E block \in StorageBlocks, puts \in 0..3 :
        /\ storage.pg = Empty
        /\ storage' = [storage EXCEPT !.rocks = rocks_save_block(@, block, puts)]
        /\ last' = [op |-> "save_block", backend |-> "rocks", block |-> block,
                    ok |-> puts = 3]
        /\ UNCHANGED <<clockVars, kvVars, sqlVars, writerVars, bftVars, netVars, arrival,
                       buckets, locks>>

\* Storage::save_block on the PostgreSQL backend
PgSaveBlock ==
    \E block \in StorageBlocks, insert_ok \in BOOLEAN :
        /\ storage.rocks = EmptyStorage.rocks
        /\ storage' = [storage EXCEPT !.pg = pg_save_block(@, block, insert_ok)]
        /\ last' = [op |-> "save_block", backend |-> "pg", block |-> block,
                    ok |-> insert_ok]
        /\ UNCHANGED <<clockVars, kvVars, sqlVars, writerVars, bftVars, netVars, arrival,
                       buckets, locks>>

InitStorage ==
    /\ InitQuiet
    /\ InitNet
    /\ last = [op |-> "start"]

NextStorage == RocksSaveBlock \/ PgSaveBlock

SpecStorage == InitStorage /\ [][NextStorage]_vars

\* C32: a block that is stored stays as it is: no save changes the block
\* stored at a height in RocksDB or the row stored under a block id in
\* PostgreSQL.
C32_CommittedImmutable ==
    [][/\ \A h \in DOMAIN storage.rocks.by_height :
            /\ h \in DOMAIN storage'.rocks.by_height
            /\ storage'.rocks.by_height[h] = storage.rocks.by_height[h]
       /\ \A i \in DOMAIN storage.pg :
            /\ i \in DOMAIN storage'.pg
            /\ storage'.pg[i] = storage.pg[i]]_vars

\* C33: a save that succeeds stores the block at the latest height plus one,
\* and the latest height a backend reports never decreases.
C33_GapFreeHeights ==
    [][last'.op = "save_block" =>
         /\ get_latest_height(storage', last'.backend) >= get_latest_height(storage, last'.backend)
         /\ (last'.ok /\ storage' # storage) =>
              last'.block.block_height = get_latest_height(storage, last'.backend) + 1]_vars

(***************************************************************************)
(* network.rs: the operations that add entries to the peer store.          *)
(***************************************************************************)
\* the addresses the node can hear of: one more than prune_peer_list keeps
PeerAddrs == 1..(MAX_PEERS + 1)

\* the listener after a handshake that succeeded: a new remote address is
\* pushed and the list pruned, a known one is marked as seen
AcceptedPeer ==
    \E remote_addr \in PeerAddrs :
        /\ peer_store' =
             IF remote_addr \notin DOMAIN peer_store
             THEN prune_peer_list(Put(peer_store, remote_addr,
                                      PeerEntry(remote_addr, current_unix)), current_unix)
             ELSE Put(peer_store, remote_addr,
                      [peer_store[remote_addr] EXCEPT !.last_seen_unix = current_unix,
                                                      !.failures = 0])
        /\ last' = [op |-> "accepted_peer", peers |-> {remote_addr}]
        /\ UNCHANGED <<instant, dedupe, inbound_rx, forwarded, connections, tasks, manager, hist>>
        /\ UNCHANGED <<clockVars, kvVars, sqlVars, writerVars, bftVars, extVars, arrival>>

\* the broadcaster takes a transaction while no connection is open and
\* BOOTSTRAP_URL is set: past the dedupe cache, the addresses fetched from
\* the URL are pushed; the list is saved, not pruned; nobody to fan out to
BroadcastBootstrap ==
    \E remote \in SUBSET PeerAddrs :
        LET env == Envelope("gossip_tx", "tx1")
            msgid == message_id_from_envelope(env)
        IN  /\ connections = Empty
            /\ remote # {}
            /\ ~IsDuplicate(dedupe, msgid, instant)
            /\ dedupe' = Remember(dedupe, msgid, instant)
            /\ peer_store' = [a \in DOMAIN peer_store \cup remote |->
                                IF a \in DOMAIN peer_store THEN peer_store[a]
                                ELSE PeerEntry(a, current_unix)]
            /\ last' = [op |-> "bootstrap", peers |-> remote]
            /\ UNCHANGED <<instant, inbound_rx, forwarded, connections, tasks, manager, hist>>
            /\ UNCHANGED <<clockVars, kvVars, sqlVars, writerVars, bftVars, extVars, arrival>>

\* start_network: PEER_ADDRS was empty and peers.json absent
InitPeerStore ==
    /\ InitQuiet
    /\ InitNet
    /\ last = [op |-> "start"]

NextPeerStore == AcceptedPeer \/ PeerListReceived \/ BroadcastBootstrap \/ TickNet

SpecPeerStore == InitPeerStore /\ [][NextPeerStore]_vars

\* C34: after every operation that adds peers the store holds at most
\* MAX_PEERS entries.
C34_StoreBounded ==
    last.op \in {"accepted_peer", "peer_list", "bootstrap"} =>
        Cardinality(DOMAIN peer_store) <= MAX_PEERS

\* ---------------------------------------------------------------------
\* flush_batch: the two failures of a flush (batch_writer.rs 113-147)
\* ---------------------------------------------------------------------

\* the batch flush_batch was handed in the step: the one just pushed to by
\* rx.recv(), or the worker's batch when the timer fired
FlushedBatch == IF last'.op = "recv" THEN Append(batch, Head(chan)) ELSE batch

\* C35: when the bulk insert into `transactions` fails, the whole batch is
\* kept unchanged for the next flush and nothing is written to the KV store
\* or to `transactions`; when the insert succeeds and a KV put fails, the
\* batch is cleared all the same
C35_FlushFailures ==
    [][ last'.op \in {"recv", "timer"} =>
          /\ last'.pg_err =>
                /\ batch' = FlushedBatch
                /\ batch' # <<>>
                /\ mempool' = mempool
                /\ transactions' = transactions
          /\ last'.rocks_err =>
                /\ batch' = <<>>
                /\ \A i \in 1..Len(FlushedBatch) :
                      \E r \in transactions' : r.tx_id = FlushedBatch[i].tx_id ]_vars

\* a full batch was handed to flush_batch, the insert failed and the batch is
\* still the worker's
C35_Witness ==
    /\ last.op \in {"recv", "timer"}
    /\ last.pg_err
    /\ Len(batch) >= BATCH_SIZE

\* C39: the accepted transactions that are not yet flushed (queued in the
\* channel or held in the worker's batch) number at most the channel's
\* capacity plus one batch, also while the relational store keeps failing,
\* and the worker's batch never holds more than BATCH_SIZE transactions
C39_UnflushedBounded ==
    /\ Len(batch) <= BATCH_SIZE
    /\ Len(chan) + Len(batch) <= MaxChan + BATCH_SIZE

(***************************************************************************)
(* finalize_block on a block of one transfer, for every u64 amount and fee *)
(* (reconciliation.rs 119-145).  The block store holds block 1 with the    *)
(* transaction 1 of the DAG.                                               *)
(***************************************************************************)
U64 == 0..(Modulus - 1)

\* finalize_block(1).  overflow_checks: the build panics on an overflowing
\* `tx.amount + tx.fee` (the receipts are written before the balance loop);
\* pool: the relational connection is made; lost: the statements that fail
FinalizeBlock ==
    \E overflow_checks \in BOOLEAN, pool \in BOOLEAN,
       lost \in SUBSET {<<1, "debit">>, <<1, "credit">>} :
        LET tx == dag[1]
            fin == finalize_block(sled_blocks, 1, <<tx>>, receipts, balances,
                                  IF pool THEN "none" ELSE "pool", 0, lost)
            panicked == pool /\ overflow_checks /\ tx.amount + tx.fee >= Modulus
        IN  /\ hist.finalized < MaxFinalize
            /\ ~pool => lost = {}
            /\ hist' = [finalized |-> hist.finalized + 1]
            /\ receipts' = fin.receipts
            /\ balances' = IF panicked THEN balances ELSE fin.balances
            /\ last' = [op |-> "finalize_block", panicked |-> panicked,
                        updated |-> pool /\ ~panicked /\ lost = {}]
            /\ UNCHANGED <<clockVars, mempool, dag, kv_blocks, kv_tx_index, sled_blocks>>
            /\ UNCHANGED <<blocks, tx_index, transactions, writerVars, bftVars, extVars>>
            /\ UNCHANGED <<instant, dedupe, inbound_rx, forwarded, peer_store, connections,
                           tasks, manager, arrival>>

InitReconcile ==
    /\ now = 0
    /\ next_uuid = 1
    /\ next_block = 1
    /\ mempool = Empty
    /\ \E amount \in U64, fee \in U64 :
          dag = (1 :> Transaction(1, "alice", "bob", amount, fee, 0, {}, EmptySig,
                                  NoString, "plain_json"))
    /\ receipts = Empty
    /\ kv_blocks = {}
    /\ kv_tx_index = Empty
    /\ sled_blocks = (1 :> <<1>>)
    /\ blocks = {}
    /\ tx_index = {}
    /\ balances = [a \in Accounts |-> 0]
    /\ transactions = {}
    /\ chan = <<>>
    /\ batch = <<>>
    /\ seen_signatures = Empty
    /\ InitExt
    /\ evidence = <<>>
    /\ arrival = Empty
    /\ instant = 0
    /\ dedupe = Empty
    /\ inbound_rx = <<>>
    /\ forwarded = <<>>
    /\ peer_store = Empty
    /\ connections = Empty
    /\ tasks = Empty
    /\ manager = [pc |-> "idle"]
    /\ hist = [finalized |-> 0]
    /\ last = [op |-> "start"]

NextReconcile == FinalizeBlock

SpecReconcile == InitReconcile /\ [][NextReconcile]_vars

\* C40: for every u64 amount and fee, a transfer whose two balance statements
\* ran lowers the sender's balance by exactly amount + fee and raises the
\* recipient's by exactly amount: the conversion to i64 neither wraps nor
\* changes sign
C40_ExactDebitCredit ==
    [][ (last'.op = "finalize_block" /\ last'.updated) =>
          balances' = [balances EXCEPT
                          !["alice"] = @ - (dag[1].amount + dag[1].fee),
                          !["bob"] = @ + dag[1].amount] ]_vars

\* the steps of the relational commit of a block (lib.rs 1063-1173), which
\* run after vm::execute_contracts returned Ok
RelationalSteps == {"begin", "insert_block", "tx_index", "commit"}

\* C38: when the relational commit of a block fails after the block's
\* transactions were executed, the KV store holds no receipt (and no contract
\* record) written by that execution
C38_NoWritesOfFailedCommit ==
    [][ (last'.op = "checkpoint" /\ last'.failed \in RelationalSteps) =>
          receipts' = receipts ]_vars

(***************************************************************************)
(* The network's tokio mutexes (network.rs).  `locks` maps a mutex to the  *)
(* task holding its guard; tokio::sync::Mutex is not reentrant, so         *)
(* lock().await completes only while no guard of the mutex is alive.  A    *)
(* task is at an instruction of the piece of code (site) it runs; the      *)
(* statements between two instructions touch no mutex.                     *)
(***************************************************************************)
LockInstr(l) == <<"lock", l>>      \* let guard = l.lock().await
DropInstr(l) == <<"drop", l>>      \* the guard of l goes out of scope
FindInstr(kind) == <<"find", kind>> \* if let Some(e) = store.iter_mut().find(..)

\* save_peers_to_file: locks the store itself, writes peers.json, returns
save_peers_to_file == << LockInstr("peer_store"), DropInstr("peer_store") >>

\* start_network 178-190: the guard `s` is alive while save_peers_to_file runs
Startup ==
    << LockInstr("peer_store") >> \o save_peers_to_file \o << DropInstr("peer_store") >>

\* connection task, Err arm 577-588, then the removal of the mapping at 592
ConnectFailed ==
    << LockInstr("peer_store"), FindInstr("failure") >> \o save_peers_to_file
        \o << DropInstr("peer_store"), LockInstr("connections"), DropInstr("connections") >>

\* the pong branch with the guard of the connections map kept to the end of
\* the branch
PongBranch_GuardKept ==
    << LockInstr("connections"), LockInstr("last_seen"), DropInstr("last_seen"),
       LockInstr("peer_store"), FindInstr("pong") >> \o save_peers_to_file
        \o << DropInstr("peer_store"), DropInstr("connections") >>

\* read loop, "pong" 528-539: the guard of the connections map is a temporary
\* of the `if let` and is dropped at its end, before the store is locked
PongBranch ==
    << LockInstr("connections"), LockInstr("last_seen"), DropInstr("last_seen"),
       DropInstr("connections"), LockInstr("peer_store"), FindInstr("pong") >>
        \o save_peers_to_file \o << DropInstr("peer_store") >>

\* connection manager, one pass with one peer to visit: the clone of the
\* store (362), the visit (368-375), the cleanup block (598-604)
ManagerPass ==
    << LockInstr("peer_store"), DropInstr("peer_store"),
       LockInstr("connections"), DropInstr("connections"),
       LockInstr("peer_store"), LockInstr("connections"),
       DropInstr("connections"), DropInstr("peer_store") >>

\* broadcaster 651-669: the snapshot of the connections map in its own
\* block, then the bootstrap peers pushed under the guard of the store
Bootstrap ==
    << LockInstr("connections"), DropInstr("connections"),
       LockInstr("peer_store"), FindInstr("bootstrap") >> \o save_peers_to_file
        \o << DropInstr("peer_store") >>

Code(site) ==
    CASE site = "startup" -> Startup
      [] site = "bootstrap" -> Bootstrap
      [] site = "connect_failed" -> ConnectFailed
      [] site = "pong" -> PongBranch
      [] site = "manager_pass" -> ManagerPass
      [] OTHER -> <<>>

\* the sites a task may enter when it is at rest
SitesOf(t) ==
    CASE t = "start_network" -> {"startup"}
      [] t = "manager" -> {"manager_pass"}
      [] t = "broadcaster" -> {"bootstrap"}
      [] OTHER -> {"connect_failed", "pong"}

\* where a task is once it ran a site to its end: start_network has returned,
\* a connection task whose connection failed has ended, the others go on
AfterSite(site) ==
    CASE site = "startup" -> "returned"
      [] site = "connect_failed" -> "ended"
      [] OTHER -> "idle"

AtRest(addr) == [site |-> "idle", at |-> 0, addr |-> addr]

\* the instruction a task is at, <<"none", "none">> when it runs no site
InstrAt(t) ==
    IF tasks[t].at \in 1..Len(Code(tasks[t].site))
    THEN Code(tasks[t].site)[tasks[t].at] ELSE <<"none", "none">>

\* the mutex an instruction of task t names: last_seen is per connection
MutexOf(t, l) == <<l, IF l = "last_seen" THEN t ELSE "net">>

\* the task moves past its instruction, to rest after the last one
Advance(t, by) ==
    IF tasks[t].at + by > Len(Code(tasks[t].site))
    THEN [tasks EXCEPT ![t].site = AfterSite(tasks[t].site), ![t].at = 0]
    ELSE [tasks EXCEPT ![t].at = @ + by]

LockUnchanged ==
    /\ UNCHANGED <<instant, dedupe, inbound_rx, forwarded, connections, manager, hist>>
    /\ UNCHANGED <<clockVars, kvVars, sqlVars, writerVars, bftVars, buckets, storage, arrival>>

\* a task at rest starts one of its pieces of code: start_network reaches the
\* block at 178, a connect fails, a pong frame is read, the manager's sleep ends
EnterSite(t) ==
    \E site \in SitesOf(t) :
        /\ t \in DOMAIN tasks
        /\ tasks[t].site = "idle"
        /\ tasks' = [tasks EXCEPT ![t].site = site, ![t].at = 1]
        /\ last' = [op |-> "enter", task |-> t, site |-> site, mutex |-> "none"]
        /\ UNCHANGED <<peer_store, locks>>
        /\ LockUnchanged

\* Mutex::lock().await completes: no guard of the mutex is alive
MutexLock(t) ==
    /\ t \in DOMAIN tasks
    /\ InstrAt(t)[1] = "lock"
    /\ MutexOf(t, InstrAt(t)[2]) \notin DOMAIN locks
    /\ locks' = Put(locks, MutexOf(t, InstrAt(t)[2]), t)
    /\ tasks' = Advance(t, 1)
    /\ last' = [op |-> "lock", task |-> t, site |-> tasks[t].site, mutex |-> InstrAt(t)[2]]
    /\ UNCHANGED peer_store
    /\ LockUnchanged

\* a guard goes out of scope
GuardDrop(t) ==
    /\ t \in DOMAIN tasks
    /\ InstrAt(t)[1] = "drop"
    /\ locks' = [m \in DOMAIN locks \ {MutexOf(t, InstrAt(t)[2])} |-> locks[m]]
    /\ tasks' = Advance(t, 1)
    /\ last' = [op |-> "drop", task |-> t, site |-> tasks[t].site, mutex |-> InstrAt(t)[2]]
    /\ UNCHANGED peer_store
    /\ LockUnchanged

\* the entry of the task's peer is looked up under the guard: if it is there
\* it is updated and save_peers_to_file is called, otherwise the call is
\* skipped.  The broadcaster pushes the bootstrap peer if it is not there and
\* calls save_peers_to_file if it pushed
FindEntry(t) ==
    LET p == tasks[t].addr
        kind == InstrAt(t)[2]
        found == IF kind = "bootstrap" THEN p \notin DOMAIN peer_store
                 ELSE p \in DOMAIN peer_store
        updated == IF kind = "bootstrap" THEN PeerEntry(p, current_unix)
                   ELSE IF kind = "pong"
                   THEN [peer_store[p] EXCEPT !.failures = 0, !.last_seen_unix = current_unix]
                   ELSE mark_failure(peer_store[p], current_unix)
    IN  /\ t \in DOMAIN tasks
        /\ InstrAt(t)[1] = "find"
        /\ peer_store' = IF found THEN Put(peer_store, p, updated) ELSE peer_store
        /\ tasks' = Advance(t, IF found THEN 1 ELSE 1 + Len(save_peers_to_file))
        /\ last' = [op |-> "find", task |-> t, site |-> tasks[t].site, mutex |-> "none"]
        /\ UNCHANGED locks
        /\ LockUnchanged

LockTasks == {"start_network", "manager", "broadcaster", "conn1", "conn2"}

\* either start_network is about to run, or the tasks it spawns are running:
\* the manager, the broadcaster, whose bootstrap list names peer 2, and the
\* connection tasks of peer 1, which is in the store, and of peer 2, which
\* is not
InitLocks ==
    /\ InitQuiet
    /\ instant = 0
    /\ dedupe = Empty
    /\ inbound_rx = <<>>
    /\ forwarded = <<>>
    /\ peer_store = [p \in {1} |-> PeerEntry(p, UnixAtStart)]
    /\ connections = Empty
    /\ tasks \in { [t \in {"start_network"} |-> AtRest(0)],
                   [t \in {"manager", "broadcaster", "conn1", "conn2"} |->
                        AtRest(IF t = "conn1" THEN 1 ELSE IF t = "manager" THEN 0 ELSE 2)] }
    /\ manager = [pc |-> "idle"]
    /\ hist = Empty
    /\ last = [op |-> "start"]

NextLocks ==
    \E t \in LockTasks : EnterSite(t) \/ MutexLock(t) \/ GuardDrop(t) \/ FindEntry(t)

SpecLocks == InitLocks /\ [][NextLocks]_vars

\* the tokio runtime polls every task that can make progress, and the mutex
\* wakes its waiters in the order they came
SpecLocksFair ==
    /\ SpecLocks
    /\ \A t \in LockTasks :
          /\ SF_vars(MutexLock(t))
          /\ WF_vars(GuardDrop(t))
          /\ WF_vars(FindEntry(t))

\* the task is at lock().await of the peer store
AwaitsStore(t) == t \in DOMAIN tasks /\ InstrAt(t) = LockInstr("peer_store")

\* C36: no task waits forever for the peer-store lock: a task that awaits it
\* eventually holds it, so start_network returns and every update of the
\* peer store completes
C36_NoTaskWaitsForever ==
    \A t \in LockTasks : AwaitsStore(t) ~> ~AwaitsStore(t)

\* C37: no task acquires (or awaits) the peer-store lock while it holds the
\* lock of the connections map
C37_StoreNotUnderConnections ==
    \A t \in LockTasks :
        AwaitsStore(t) =>
            ~(MutexOf(t, "connections") \in DOMAIN locks /\ locks[MutexOf(t, "connections")] = t)

\* a pong branch has locked the connections map and the peer's last_seen,
\* dropped both guards and now holds the peer store, while another task
\* holds the connections map
C37_Witness ==
    /\ last.op = "lock"
    /\ last.site = "pong"
    /\ last.mutex = "peer_store"
    /\ MutexOf(last.task, "connections") \in DOMAIN locks
    /\ locks[MutexOf(last.task, "connections")] # last.task

====
